---- MODULE Spec2Model ----
(***************************************************************************)
(* A state-machine model of initiative.sh's core: the Field attribute      *)
(* wrapper, the Repository (cache, recent buffer, clock, data store), the  *)
(* CommandAlias registry and the TutorialCommand state machine.            *)
(*                                                                         *)
(* Text is modelled as a sequence of one-character strings, so that        *)
(* prefixes, suffixes, lengths and case folding are computed, not assumed. *)
(* Option<T> is modelled as a sequence of length at most one:              *)
(* None == <<>>, Some(x) == <<x>>.                                         *)
(***************************************************************************)
EXTENDS Integers, Sequences, FiniteSets, TLC

VARIABLES
    cache,              \* Repository.cache: uuid -> Thing
    recent,             \* Repository.recent: VecDeque<Thing>, oldest first
    ring,               \* where the buffer of recent holds it: head and capacity
    time,               \* Repository.time
    data_store_enabled, \* Repository.data_store_enabled
    store,              \* the data store's persisted things: uuid -> Thing
    storeKV,            \* the data store's key/value section ("time")
    calls,              \* data-store calls made by the most recent operation
    command_aliases,    \* AppMeta.command_aliases: HashSet<CommandAlias>
    fields,             \* the Field attributes of one entity
    last,               \* the most recent operation, its inputs and its result
    pushes,             \* number of push_recent calls made by the environment
    budget              \* operations left to the environment, per kind

repoVars == <<cache, recent, ring, time, data_store_enabled, store, storeKV, calls>>
vars == <<cache, recent, ring, time, data_store_enabled, store, storeKV, calls,
          command_aliases, fields, last, pushes, budget>>

(***************************************************************************)
(* Bounds of the model.                                                    *)
(***************************************************************************)
MaxPush == 2    \* push_recent calls with a chosen name
MaxOps == 2     \* save_thing_by_name / delete_thing_by_name calls
MaxFill == 1    \* runs of the fill loop

(***************************************************************************)
(* Option and text helpers.                                                *)
(***************************************************************************)
None == <<>>
Some(x) == <<x>>
is_some(o) == Len(o) = 1
unwrap(o) == o[1]

Range(s) == {s[i] : i \in 1..Len(s)}

\* char::to_lowercase on the ASCII letters
LowerTable ==
    ("A" :> "a") @@ ("B" :> "b") @@ ("C" :> "c") @@ ("D" :> "d") @@ ("E" :> "e") @@ ("F" :> "f")
        @@ ("G" :> "g") @@ ("H" :> "h") @@ ("I" :> "i") @@ ("J" :> "j") @@ ("K" :> "k") @@ ("L" :> "l")
        @@ ("M" :> "m") @@ ("N" :> "n") @@ ("O" :> "o") @@ ("P" :> "p") @@ ("Q" :> "q") @@ ("R" :> "r")
        @@ ("S" :> "s") @@ ("T" :> "t") @@ ("U" :> "u") @@ ("V" :> "v") @@ ("W" :> "w") @@ ("X" :> "x")
        @@ ("Y" :> "y") @@ ("Z" :> "z")

\* str::to_lowercase
to_lowercase(s) ==
    [i \in 1..Len(s) |-> IF s[i] \in DOMAIN LowerTable THEN LowerTable[s[i]] ELSE s[i]]

\* str::starts_with
starts_with(s, p) == Len(p) <= Len(s) /\ SubSeq(s, 1, Len(p)) = p

\* str::ends_with
ends_with(s, p) == Len(p) <= Len(s) /\ SubSeq(s, Len(s) - Len(p) + 1, Len(s)) = p

DigitChar == <<"0", "1", "2", "3", "4", "5", "6", "7", "8", "9">>

\* the decimal rendering of a natural number ({} in format!)
RECURSIVE Decimal(_)
Decimal(n) ==
    IF n < 10 THEN <<DigitChar[n + 1]>>
    ELSE Decimal(n \div 10) \o <<DigitChar[(n % 10) + 1]>>

(***************************************************************************)
(* Field<T> (world/field.rs).                                              *)
(***************************************************************************)
\* Field::new
FieldNew(v) == [is_locked |-> TRUE, value |-> Some(v)]

\* Field::new_generated
FieldNewGenerated(v) == [is_locked |-> FALSE, value |-> Some(v)]

\* Field::default
FieldDefault == [is_locked |-> FALSE, value |-> None]

is_locked(f) == f.is_locked
is_unlocked(f) == ~is_locked(f)

\* Field::value
value(f) == f.value

\* Field::replace_with that does not test the lock
replace_with_unchecked(f, F) == [f EXCEPT !.value = Some(F[f.value])]

\* Field::replace_with; F maps the old Option to the new value
replace_with(f, F) ==
    IF is_unlocked(f) THEN [f EXCEPT !.value = Some(F[f.value])] ELSE f

\* Field::replace
replace(f, v) == replace_with(f, [old \in {f.value} |-> v])

\* Field::clear
clear(f) == IF is_unlocked(f) THEN [f EXCEPT !.value = None] ELSE f

\* impl fmt::Display for Field: the value, or nothing
Display(f) == IF is_some(f.value) THEN unwrap(f.value) ELSE <<>>

(***************************************************************************)
(* Thing.  tag stands for the generated attributes other than the name     *)
(* and the gender (the model gives every pushed entity its own).           *)
(***************************************************************************)
Thing(tag, name) == [tag |-> tag, name |-> name, gender |-> "Trans", uuid |-> None]

\* Thing::set_uuid
\* a set_uuid that leaves the entity as it is
keep_uuid(thing, u) == thing

set_uuid(thing, u) == [thing EXCEPT !.uuid = Some(u)]

\* the closure name_matches / |s| s.to_lowercase() == lowercase_name, under
\* t.name().value().map_or(false, ..)
name_matches(thing, lowercase_name) ==
    /\ is_some(value(thing.name))
    /\ to_lowercase(unwrap(value(thing.name))) = lowercase_name

(***************************************************************************)
(* Repository (storage/repository.rs).                                     *)
(***************************************************************************)
RECENT_MAX_LEN == 100

\* Repository::push_recent: the new contents of recent
RECURSIVE pop_while_full(_)
pop_while_full(rec) ==
    IF Len(rec) >= RECENT_MAX_LEN THEN pop_while_full(Tail(rec)) ELSE rec

\* push_recent with the capacity test off by one (> for >=)
push_recent_off_by_one(rec, thing) ==
    Append(IF Len(rec) > RECENT_MAX_LEN THEN Tail(rec) ELSE rec, thing)

push_recent(rec, thing) == Append(pop_while_full(rec), thing)

\* Repository::take_recent with the name predicate: the index found by find_map
\* (0 when there is none)
find_recent(rec, lowercase_name) ==
    LET hits == {i \in 1..Len(rec) : name_matches(rec[i], lowercase_name)}
    IN  IF hits = {} THEN 0 ELSE CHOOSE i \in hits : \A j \in hits : i <= j

\* VecDeque::pop_back in the place of remove(index)
remove_newest(rec, index) == SubSeq(rec, 1, Len(rec) - 1)

\* VecDeque::remove(index)
remove_at(rec, index) ==
    [i \in 1..(Len(rec) - 1) |-> IF i < index THEN rec[i] ELSE rec[i + 1]]

\* take_recent that hands out the entity found but leaves it in the buffer
take_recent_keeps(rec, lowercase_name) ==
    LET index == find_recent(rec, lowercase_name)
    IN  [thing |-> IF index # 0 THEN Some(rec[index]) ELSE None, recent |-> rec]

take_recent(rec, lowercase_name) ==
    LET index == find_recent(rec, lowercase_name)
    IN  IF index # 0
        THEN [thing |-> Some(rec[index]), recent |-> remove_at(rec, index)]
        ELSE [thing |-> None, recent |-> rec]

(***************************************************************************)
(* The buffer behind recent.  std's VecDeque keeps its elements in a ring   *)
(* of cap slots, the oldest in slot head and element i (counted from 0) in  *)
(* slot (head + i) % cap; as_slices splits the contents where the ring      *)
(* passes from its last slot to slot 0.  The growth is that of Rust 1.67    *)
(* and later: no slots at first, then 4, then twice as many.                *)
(***************************************************************************)
\* VecDeque::default
RingNew == [head |-> 0, cap |-> 0]

\* VecDeque::grow on a full buffer of len elements: the capacity doubles and
\* handle_capacity_increase moves the shorter section of wrapped contents
ring_grow(r, len) ==
    LET new_cap == IF 2 * r.cap > 4 THEN 2 * r.cap ELSE 4
        head_len == r.cap - r.head
        tail_len == len - head_len
    IN  IF r.head <= r.cap - len THEN [head |-> r.head, cap |-> new_cap]
        ELSE IF head_len > tail_len /\ new_cap - r.cap >= tail_len
        THEN [head |-> r.head, cap |-> new_cap]
        ELSE [head |-> new_cap - head_len, cap |-> new_cap]

\* VecDeque::push_back on len elements
ring_push_back(r, len) == IF len = r.cap THEN ring_grow(r, len) ELSE r

\* VecDeque::pop_front
ring_pop_front(r) == [head |-> (r.head + 1) % r.cap, cap |-> r.cap]

\* Repository::push_recent on len elements
RECURSIVE ring_push_recent(_, _)
ring_push_recent(r, len) ==
    IF len >= RECENT_MAX_LEN THEN ring_push_recent(ring_pop_front(r), len - 1)
    ELSE ring_push_back(r, len)

\* VecDeque::remove(index) on len elements, index counted from 1: the
\* elements behind it move up if they are the fewer, else those before it
\* move down and the head with them
ring_remove(r, len, index) ==
    IF len - index < index - 1 THEN r
    ELSE [head |-> (r.head + 1) % r.cap, cap |-> r.cap]

\* Repository::take_recent with the name predicate
ring_take_recent(r, rec, lowercase_name) ==
    IF find_recent(rec, lowercase_name) # 0
    THEN ring_remove(r, Len(rec), find_recent(rec, lowercase_name))
    ELSE r

\* VecDeque::as_slices().0: the contents up to the last slot of the ring
as_slices_0(rec, r) ==
    IF r.head + Len(rec) <= r.cap THEN rec ELSE SubSeq(rec, 1, r.cap - r.head)

\* HashMap::insert
map_insert(m, k, v) == [x \in DOMAIN m \cup {k} |-> IF x = k THEN v ELSE m[x]]

\* HashMap::remove
map_remove(m, k) == [x \in DOMAIN m \ {k} |-> m[x]]

\* the cache entries whose name matches
cache_matches(c, lowercase_name) ==
    {k \in DOMAIN c : name_matches(c[k], lowercase_name)}

Ok(kind, arg) == [ok |-> TRUE, kind |-> kind, arg |-> arg]
Err(kind, arg) == [ok |-> FALSE, kind |-> kind, arg |-> arg]

\* save_thing_by_name that caches the entity before it knows of the save
save_caches_first(c, rec, st, name, store_ok, u) ==
    LET lowercase_name == to_lowercase(name)
        taken == take_recent(rec, lowercase_name)
    IN  IF is_some(taken.thing)
        THEN LET thing == set_uuid(unwrap(taken.thing), u)
             IN  IF store_ok
                 THEN [cache |-> map_insert(c, u, thing),
                       recent |-> taken.recent,
                       store |-> map_insert(st, u, thing),
                       calls |-> <<"save_thing">>,
                       result |-> Ok("was successfully saved", Display(thing.name))]
                 ELSE [cache |-> map_insert(c, u, thing),
                       recent |-> push_recent(taken.recent, thing),
                       store |-> st,
                       calls |-> <<"save_thing">>,
                       result |-> Err("Couldn't save", Display(thing.name))]
        ELSE IF cache_matches(c, lowercase_name) # {}
        THEN [cache |-> c, recent |-> rec, store |-> st, calls |-> <<>>,
              result |-> Err("has already been saved to your journal", name)]
        ELSE [cache |-> c, recent |-> rec, store |-> st, calls |-> <<>>,
              result |-> Err("No matches for", name)]

\* Repository::save_thing_by_name.  store_ok is the outcome of
\* DataStore::save_thing, u the identifier Uuid::new_v4 returns.
save_thing_by_name(c, rec, st, name, store_ok, u) ==
    LET lowercase_name == to_lowercase(name)
        taken == take_recent(rec, lowercase_name)
    IN  IF is_some(taken.thing)
        THEN LET thing == set_uuid(unwrap(taken.thing), u)
             IN  IF store_ok
                 THEN [cache |-> map_insert(c, u, thing),
                       recent |-> taken.recent,
                       store |-> map_insert(st, u, thing),
                       calls |-> <<"save_thing">>,
                       result |-> Ok("was successfully saved", Display(thing.name))]
                 ELSE [cache |-> c,
                       recent |-> push_recent(taken.recent, thing),
                       store |-> st,
                       calls |-> <<"save_thing">>,
                       result |-> Err("Couldn't save", Display(thing.name))]
        ELSE IF cache_matches(c, lowercase_name) # {}
        THEN [cache |-> c, recent |-> rec, store |-> st, calls |-> <<>>,
              result |-> Err("has already been saved to your journal", name)]
        ELSE [cache |-> c, recent |-> rec, store |-> st, calls |-> <<>>,
              result |-> Err("No matches for", name)]

\* delete_thing_by_name that reports the name it searched for, in lower case
delete_reports_lowercase_name(c, rec, st, name, found, store_ok) ==
    LET lowercase_name == to_lowercase(name)
        taken == take_recent(rec, lowercase_name)
    IN  IF is_some(found)
        THEN LET uuid == unwrap(found)
             IN  [cache |-> map_remove(c, uuid),
                  recent |-> rec,
                  store |-> IF store_ok THEN map_remove(st, uuid) ELSE st,
                  calls |-> <<"delete_thing_by_uuid">>,
                  result |-> Ok("was successfully deleted", Display(c[uuid].name))]
        ELSE IF is_some(taken.thing)
        THEN [cache |-> c, recent |-> taken.recent, store |-> st, calls |-> <<>>,
              result |-> Ok("deleted from recent entries", Display(unwrap(taken.thing).name))]
        ELSE [cache |-> c, recent |-> rec, store |-> st, calls |-> <<>>,
              result |-> Err("There is no entity named", lowercase_name)]

\* delete_thing_by_name that wants both deletions to succeed
delete_needs_both(c, rec, st, name, found, store_ok) ==
    LET lowercase_name == to_lowercase(name)
        taken == take_recent(rec, lowercase_name)
    IN  IF is_some(found)
        THEN LET uuid == unwrap(found)
                 store_delete_success == store_ok
                 cache_delete_success == uuid \in DOMAIN c
             IN  [cache |-> map_remove(c, uuid),
                  recent |-> rec,
                  store |-> IF store_ok THEN map_remove(st, uuid) ELSE st,
                  calls |-> <<"delete_thing_by_uuid">>,
                  result |-> IF store_delete_success /\ cache_delete_success
                             THEN Ok("was successfully deleted", Display(c[uuid].name))
                             ELSE Err("Could not delete", Display(c[uuid].name))]
        ELSE IF is_some(taken.thing)
        THEN [cache |-> c, recent |-> taken.recent, store |-> st, calls |-> <<>>,
              result |-> Ok("deleted from recent entries", Display(unwrap(taken.thing).name))]
        ELSE [cache |-> c, recent |-> rec, store |-> st, calls |-> <<>>,
              result |-> Err("There is no entity named", name)]

\* Repository::delete_thing_by_name.  found is the cache entry cache.iter().find
\* yields (None when no entry matches), store_ok the outcome of
\* DataStore::delete_thing_by_uuid.
delete_thing_by_name(c, rec, st, name, found, store_ok) ==
    LET lowercase_name == to_lowercase(name)
        taken == take_recent(rec, lowercase_name)
    IN  IF is_some(found)
        THEN LET uuid == unwrap(found)
                 store_delete_success == store_ok
                 cache_delete_success == uuid \in DOMAIN c
             IN  [cache |-> map_remove(c, uuid),
                  recent |-> rec,
                  store |-> IF store_ok THEN map_remove(st, uuid) ELSE st,
                  calls |-> <<"delete_thing_by_uuid">>,
                  result |-> IF store_delete_success \/ cache_delete_success
                             THEN Ok("was successfully deleted", Display(c[uuid].name))
                             ELSE Err("Could not delete", Display(c[uuid].name))]
        ELSE IF is_some(taken.thing)
        THEN [cache |-> c, recent |-> taken.recent, store |-> st, calls |-> <<>>,
              result |-> Ok("deleted from recent entries", Display(unwrap(taken.thing).name))]
        ELSE [cache |-> c, recent |-> rec, store |-> st, calls |-> <<>>,
              result |-> Err("There is no entity named", name)]

\* the buffer of recent after save_thing_by_name: the entity is taken and,
\* the save failing, pushed back
save_thing_ring(r, rec, name, store_ok) ==
    LET index == find_recent(rec, to_lowercase(name))
        taken == ring_take_recent(r, rec, to_lowercase(name))
    IN  IF index # 0 /\ ~store_ok THEN ring_push_recent(taken, Len(rec) - 1) ELSE taken

\* the buffer of recent after delete_thing_by_name: recent is searched when
\* the cache holds no match
delete_thing_ring(r, rec, name, found) ==
    IF is_some(found) THEN r ELSE ring_take_recent(r, rec, to_lowercase(name))

\* Time::display_short: days:hours:minutes:seconds, each in decimal
display_short(t) ==
    Decimal(t.days) \o <<":">> \o Decimal(t.hours) \o <<":">> \o Decimal(t.minutes)
        \o <<":">> \o Decimal(t.seconds)

\* str::parse::<u8> and the like: the number a string of digits writes,
\* None for any other string
RECURSIVE parse_decimal(_)
parse_decimal(s) ==
    IF s = <<>> \/ \E i \in 1..Len(s) : s[i] \notin Range(DigitChar) THEN None
    ELSE LET digit == (CHOOSE d \in 1..10 : DigitChar[d] = s[Len(s)]) - 1
         IN  IF Len(s) = 1 THEN Some(digit)
             ELSE Some(10 * unwrap(parse_decimal(SubSeq(s, 1, Len(s) - 1))) + digit)

\* str::parse::<Time>: four numbers with colons between them, None standing
\* for Err
parse_time(s) ==
    LET colons == {i \in 1..Len(s) : s[i] = ":"}
        nth(k) == CHOOSE i \in colons : Cardinality({j \in colons : j < i}) = k - 1
        part(k) == parse_decimal(SubSeq(s, IF k = 1 THEN 1 ELSE nth(k - 1) + 1,
                                           IF k = 4 THEN Len(s) ELSE nth(k) - 1))
    IN  IF Cardinality(colons) # 3 \/ \E k \in 1..4 : part(k) = None THEN None
        ELSE IF unwrap(part(2)) >= 24 \/ unwrap(part(3)) >= 60 \/ unwrap(part(4)) >= 60
        THEN None
        ELSE Some([days |-> unwrap(part(1)), hours |-> unwrap(part(2)),
                   minutes |-> unwrap(part(3)), seconds |-> unwrap(part(4))])

\* a set_time that gives up when the data store does
set_time_if_stored(kv, t, store_ok) ==
    IF store_ok
    THEN [storeKV |-> Some(display_short(t)), time |-> t, calls |-> <<"set_value">>]
    ELSE [storeKV |-> kv, time |-> [days |-> 1, hours |-> 8, minutes |-> 0, seconds |-> 0],
          calls |-> <<"set_value">>]

\* Repository::set_time; store_ok is the outcome of DataStore::set_value
set_time(kv, t, store_ok) ==
    [storeKV |-> IF store_ok THEN Some(display_short(t)) ELSE kv, time |-> t,
     calls |-> <<"set_value">>]

\* an init that caches whatever the data store returns, under the store's key
init_keeps_all(c, enabled, st, kv, t, things_ok, value_ok, store_ok) ==
    [cache |-> IF things_ok THEN st ELSE c,
     data_store_enabled |-> things_ok \/ enabled,
     storeKV |-> kv,
     time |-> t,
     calls |-> <<"get_all_the_things", "get_value">>]

\* Repository::init.  things_ok and value_ok are the outcomes of
\* DataStore::get_all_the_things and get_value("time"), store_ok that of the
\* set_value of set_time.
repository_init(c, enabled, st, kv, t, things_ok, value_ok, store_ok) ==
    LET restored == IF value_ok /\ is_some(kv) THEN parse_time(unwrap(kv)) ELSE None
        clock == IF is_some(restored) THEN set_time(kv, unwrap(restored), store_ok)
                 ELSE [storeKV |-> kv, time |-> t, calls |-> <<>>]
    IN  [cache |-> IF things_ok
                   THEN [u \in {unwrap(st[k].uuid) : k \in {j \in DOMAIN st : is_some(st[j].uuid)}}
                            |-> CHOOSE thing \in {st[k] : k \in DOMAIN st} : thing.uuid = Some(u)]
                   ELSE c,
         data_store_enabled |-> things_ok \/ enabled,
         storeKV |-> clock.storeKV,
         time |-> clock.time,
         calls |-> <<"get_all_the_things", "get_value">> \o clock.calls]

(***************************************************************************)
(* The repository's environment: the names entities are generated with,    *)
(* the names the user asks for, and the data store's answers.              *)
(***************************************************************************)
PushNames == {<<"F", "o", "o">>, <<"B", "a", "r">>}
QueryNames == {<<"f", "o", "o">>, <<"B", "a", "z">>}
Uuids == 1..(MaxPush + MaxOps)

EmptyMap == [x \in {} |-> x]

\* Time::try_new(1, 8, 0, 0)
InitialTime == [days |-> 1, hours |-> 8, minutes |-> 0, seconds |-> 0]

\* Uuid::new_v4 draws 122 random bits: the model excludes a collision with an
\* identifier in use, and, identifiers being compared for equality only, takes
\* the least one that is free
uuids_in_use ==
    DOMAIN cache \cup DOMAIN store
        \cup {unwrap(recent[i].uuid) : i \in {j \in 1..Len(recent) : is_some(recent[j].uuid)}}

\* Repository::new, around an empty data store
RepoInit ==
    /\ cache = EmptyMap
    /\ recent = <<>>
    /\ ring = RingNew
    /\ time = InitialTime
    /\ data_store_enabled = FALSE
    /\ store = EmptyMap
    /\ storeKV = None
    /\ calls = <<>>

\* the loop of recent_test: entities named "Thing <n>" are pushed until the
\* buffer is full
RECURSIVE fill_recent(_, _)
fill_recent(rec, n) ==
    IF Len(rec) >= RECENT_MAX_LEN THEN rec
    ELSE fill_recent(
             push_recent(rec, Thing(n + 1, FieldNew(<<"T", "h", "i", "n", "g", " ">> \o Decimal(n)))),
             n + 1)

\* the buffer of recent after the loop: every push_back that finds the
\* buffer full, of cap elements then, makes it grow
RECURSIVE fill_recent_ring(_, _)
fill_recent_ring(r, len) ==
    IF r.cap >= RECENT_MAX_LEN \/ len >= RECENT_MAX_LEN THEN r
    ELSE fill_recent_ring(ring_grow(r, r.cap), r.cap)

PushRecent(name) ==
    /\ budget.push > 0
    /\ LET thing == Thing(pushes + 1, FieldNew(name))
       IN  /\ recent' = push_recent(recent, thing)
           /\ ring' = ring_push_recent(ring, Len(recent))
           /\ last' = [op |-> "push_recent", thing |-> thing]
    /\ pushes' = pushes + 1
    /\ calls' = <<>>
    /\ budget' = [budget EXCEPT !.push = @ - 1]
    /\ UNCHANGED <<cache, time, data_store_enabled, store, storeKV, command_aliases, fields>>

FillRecent ==
    /\ budget.fill > 0
    /\ Len(recent) < RECENT_MAX_LEN
    /\ recent' = fill_recent(recent, pushes)
    /\ ring' = fill_recent_ring(ring, Len(recent))
    /\ pushes' = pushes + (RECENT_MAX_LEN - Len(recent))
    /\ last' = [op |-> "fill"]
    /\ calls' = <<>>
    /\ budget' = [budget EXCEPT !.fill = @ - 1]
    /\ UNCHANGED <<cache, time, data_store_enabled, store, storeKV, command_aliases, fields>>

new_v4 ==
    LET free == (1..(Cardinality(uuids_in_use) + 1)) \ uuids_in_use
    IN  CHOOSE u \in free : \A v \in free : u <= v

SaveThingByName(name, store_ok, u) ==
    /\ budget.ops > 0
    /\ u = new_v4
    /\ LET r == save_thing_by_name(cache, recent, store, name, store_ok, u)
       IN  /\ cache' = r.cache
           /\ recent' = r.recent
           /\ ring' = save_thing_ring(ring, recent, name, store_ok)
           /\ store' = r.store
           /\ calls' = r.calls
           /\ last' = [op |-> "save_thing_by_name", name |-> name,
                       store_ok |-> store_ok, uuid |-> u, result |-> r.result]
    /\ budget' = [budget EXCEPT !.ops = @ - 1]
    /\ UNCHANGED <<time, data_store_enabled, storeKV, command_aliases, fields, pushes>>

RepositoryInit(things_ok, value_ok, store_ok) ==
    /\ budget.ops > 0
    /\ LET r == repository_init(cache, data_store_enabled, store, storeKV, time,
                                things_ok, value_ok, store_ok)
       IN  /\ cache' = r.cache
           /\ data_store_enabled' = r.data_store_enabled
           /\ storeKV' = r.storeKV
           /\ time' = r.time
           /\ calls' = r.calls
           /\ last' = [op |-> "init", things_ok |-> things_ok, value_ok |-> value_ok]
    /\ budget' = [budget EXCEPT !.ops = @ - 1]
    /\ UNCHANGED <<recent, ring, store, command_aliases, fields, pushes>>

DeleteThingByName(name, found, store_ok) ==
    /\ budget.ops > 0
    /\ LET hits == cache_matches(cache, to_lowercase(name))
       IN  IF hits = {} THEN found = None ELSE is_some(found) /\ unwrap(found) \in hits
    /\ LET r == delete_thing_by_name(cache, recent, store, name, found, store_ok)
       IN  /\ cache' = r.cache
           /\ recent' = r.recent
           /\ ring' = delete_thing_ring(ring, recent, name, found)
           /\ store' = r.store
           /\ calls' = r.calls
           /\ last' = [op |-> "delete_thing_by_name", name |-> name,
                       store_ok |-> store_ok, found |-> found, result |-> r.result]
    /\ budget' = [budget EXCEPT !.ops = @ - 1]
    /\ UNCHANGED <<time, data_store_enabled, storeKV, command_aliases, fields, pushes>>

InitRepo ==
    /\ RepoInit
    /\ command_aliases = {}
    /\ fields = EmptyMap
    /\ last = [op |-> "new"]
    /\ pushes = 0
    /\ budget = [push |-> MaxPush, ops |-> MaxOps, fill |-> MaxFill]

NextRepo ==
    \/ \E name \in PushNames : PushRecent(name)
    \/ FillRecent
    \/ \E name \in QueryNames, store_ok \in BOOLEAN :
           SaveThingByName(name, store_ok, new_v4)
    \/ \E name \in QueryNames, found \in {None} \cup {Some(k) : k \in Uuids},
          store_ok \in BOOLEAN :
           DeleteThingByName(name, found, store_ok)
    \/ \E things_ok, value_ok, store_ok \in BOOLEAN :
           RepositoryInit(things_ok, value_ok, store_ok)

SpecRepo == InitRepo /\ [][NextRepo]_vars

(***************************************************************************)
(* Repository claims.                                                      *)
(***************************************************************************)
tags_of(rec) == {rec[i].tag : i \in 1..Len(rec)}

\* the entities of rec whose name equals name ignoring case
matching(rec, name) ==
    {i \in 1..Len(rec) : name_matches(rec[i], to_lowercase(name))}

\* C2: recent never holds more than 100 entities; a push_recent onto a full
\* buffer drops exactly the oldest entity and appends the new one at the
\* newest end; after the 101st push (nothing having been taken out) the
\* 1st-pushed entity is the one that is absent.
C2_RecentIsBoundedFifo ==
    /\ [](Len(recent) <= RECENT_MAX_LEN)
    /\ [][(last'.op = "push_recent" /\ Len(recent) = RECENT_MAX_LEN)
            => recent' = Append(Tail(recent), last'.thing)]_vars
    /\ []((pushes = RECENT_MAX_LEN + 1 /\ budget.ops = MaxOps)
            => tags_of(recent) = 2..(RECENT_MAX_LEN + 1))

C2_Witness ==
    /\ last.op = "push_recent"
    /\ pushes = RECENT_MAX_LEN + 1
    /\ budget.ops = MaxOps
    /\ Len(recent) = RECENT_MAX_LEN
    /\ recent[1].tag = 2
    /\ recent[RECENT_MAX_LEN] = last.thing

\* C3: when save_thing_by_name finds a name match in recent and the store's
\* save_thing succeeds, the entity leaves recent, is in cache under the newly
\* assigned uuid, which was no cache key before, and Ok is returned.
C3_SaveMovesToCache ==
    [][(/\ last'.op = "save_thing_by_name"
        /\ matching(recent, last'.name) # {}
        /\ last'.store_ok)
        => /\ last'.result.ok
           /\ last'.uuid \notin DOMAIN cache
           /\ DOMAIN cache' = DOMAIN cache \cup {last'.uuid}
           /\ \A k \in DOMAIN cache : cache'[k] = cache[k]
           /\ \E i \in matching(recent, last'.name) :
                  /\ cache'[last'.uuid] = set_uuid(recent[i], last'.uuid)
                  /\ recent[i].tag \notin tags_of(recent')
                  /\ tags_of(recent') = tags_of(recent) \ {recent[i].tag}]_vars

C3_Witness ==
    /\ last.op = "save_thing_by_name"
    /\ last.store_ok
    /\ last.result.ok
    /\ last.uuid \in DOMAIN cache
    /\ Len(recent) > 0

\* C4: when the store's save_thing fails during save_thing_by_name, the entity
\* is back in recent unchanged (same attributes, still without a uuid), cache
\* is unchanged, no other entity is lost from recent, and an error is returned.
C4_FailedSaveRestoresUnchanged ==
    [][(/\ last'.op = "save_thing_by_name"
        /\ matching(recent, last'.name) # {}
        /\ ~last'.store_ok)
        => /\ ~last'.result.ok
           /\ cache' = cache
           /\ Range(recent') = Range(recent)]_vars

\* what the code does in the case of C4: the entity is back in recent, at the
\* newest end, carrying the uuid assigned before the save was attempted
C4_FailedSaveKeepsUuid ==
    /\ last.op = "save_thing_by_name"
    /\ ~last.store_ok
    /\ ~last.result.ok
    /\ Len(recent) > 0
    /\ recent[Len(recent)].uuid = Some(last.uuid)

\* C5: save_thing_by_name fails with the name-conflict error whenever cache
\* holds an entity of that name (whatever recent holds), and with the
\* not-found error when neither cache nor recent holds one; in both failures
\* cache and recent are unchanged and the store is not written.
C5_SaveConflictAndNotFound ==
    [][(last'.op = "save_thing_by_name")
        => /\ (cache_matches(cache, to_lowercase(last'.name)) # {})
                => /\ ~last'.result.ok
                   /\ last'.result.kind = "has already been saved to your journal"
                   /\ cache' = cache /\ recent' = recent
                   /\ store' = store /\ calls' = <<>>
           /\ (/\ cache_matches(cache, to_lowercase(last'.name)) = {}
               /\ matching(recent, last'.name) = {})
                => /\ ~last'.result.ok
                   /\ last'.result.kind = "No matches for"
                   /\ cache' = cache /\ recent' = recent
                   /\ store' = store /\ calls' = <<>>]_vars

\* what the code does in the case of C5: a second entity of the same name is
\* saved although cache already holds one
C5_DuplicateNameSaved ==
    /\ last.op = "save_thing_by_name"
    /\ last.result.ok
    /\ Cardinality(cache_matches(cache, to_lowercase(last.name))) > 1

(***************************************************************************)
(* Commands and CommandAlias (app/command/alias.rs).  A command is a       *)
(* record of one shape for every family, the fields a variant does not     *)
(* carry being blank.                                                      *)
(***************************************************************************)
BlankCommand ==
    [family |-> "", variant |-> "", name |-> <<>>, inn_name |-> <<>>,
     npc_gender |-> "", npc_name |-> <<>>, other_npc_name |-> <<>>]

\* AppCommand::About.into(), AppCommand::Help.into()
AppCommand(variant) == [BlankCommand EXCEPT !.family = "App", !.variant = variant]

\* CommandAlias::literal
literal(term, summary, command) ==
    [kind |-> "Literal", term |-> term, summary |-> summary, command |-> command]

\* CommandAlias::strict_wildcard
strict_wildcard(command) ==
    [kind |-> "StrictWildcard", term |-> <<>>, summary |-> <<>>, command |-> command]

\* equality and hash of the strict wildcard: it equals every strict wildcard
\* and no literal alias, so that a registry holds at most one
wildcard_eq(a, b) == a.kind = b.kind
wildcard_hash(a) == <<a.kind, <<>>>>

\* impl PartialEq for CommandAlias that also compares the summaries
alias_eq_with_summary(a, b) ==
    IF a.kind = "Literal" /\ b.kind = "Literal"
    THEN a.term = b.term /\ a.summary = b.summary
    ELSE wildcard_eq(a, b)

\* impl PartialEq for CommandAlias: two literal aliases are equal when their
\* terms are
alias_eq(a, b) ==
    IF a.kind = "Literal" /\ b.kind = "Literal"
    THEN a.term = b.term
    ELSE wildcard_eq(a, b)

\* impl Hash for CommandAlias: what is fed to the hasher
alias_hash(a) == IF a.kind = "Literal" THEN <<a.kind, a.term>> ELSE wildcard_hash(a)

\* HashSet::contains
contains(set, a) == \E b \in set : alias_hash(b) = alias_hash(a) /\ alias_eq(b, a)

\* HashSet::insert: a value equal to a member is not added, the member stays
\* an insert that puts the new element in the place of an equal one
hash_replace(set, a) == {b \in set : ~(alias_hash(b) = alias_hash(a) /\ alias_eq(b, a))} \cup {a}

hash_insert(set, a) == IF contains(set, a) THEN set ELSE set \cup {a}

\* a command's inserts, in order, into the registry it runs against
RECURSIVE insert_all(_, _)
insert_all(set, as) ==
    IF as = <<>> THEN set ELSE insert_all(hash_insert(set, Head(as)), Tail(as))

\* CommandAlias::run that forgets to put the swapped-out registry back
alias_run_no_restore(aliases, registered) ==
    [seen |-> {}, registered |-> insert_all({}, registered),
     aliases |-> insert_all({}, registered)]

\* CommandAlias::run whose merge lets the old alias win a collision
alias_run_old_wins(aliases, registered) ==
    LET after_command == insert_all({}, registered)
    IN  [seen |-> {}, registered |-> after_command,
         aliases |-> IF after_command = {} THEN aliases
                     ELSE aliases \cup {n \in after_command : ~contains(aliases, n)}]

\* CommandAlias::run (Literal), as far as the registry goes.  registered are
\* the aliases the wrapped command inserts while it runs.  seen is the
\* registry the wrapped command starts from, registered the registry it
\* leaves, aliases the registry after the run.
alias_run(aliases, registered) ==
    LET temp_aliases == aliases
        taken == {}
        after_command == insert_all(taken, registered)
    IN  [seen |-> taken, registered |-> after_command,
         aliases |-> IF after_command = {}
                     THEN temp_aliases
                     ELSE after_command
                              \cup {c \in temp_aliases : ~contains(after_command, c)}]

\* a parse_input that compares the terms ignoring case
alias_parse_ignoring_case(input, aliases) ==
    LET hits == {a \in aliases : a.kind = "Literal" /\ to_lowercase(a.term) = to_lowercase(input)}
    IN  [exact |-> IF hits = {} THEN None ELSE Some(CHOOSE a \in hits : TRUE),
         fuzzy |-> <<>>]

\* CommandAlias::parse_input: the exact match and the fuzzy matches
alias_parse_input(input, aliases) ==
    LET hits == {a \in aliases : a.kind = "Literal" /\ a.term = input}
    IN  [exact |-> IF hits = {} THEN None ELSE Some(CHOOSE a \in hits : TRUE),
         fuzzy |-> <<>>]

(***************************************************************************)
(* The registry's environment: the aliases of eq_test and hash_test.       *)
(***************************************************************************)
MaxRegistered == 2  \* aliases one wrapped command registers

Terms == {<<"f", "o", "o">>, <<"b", "a", "r">>}
AliasUniverse ==
    {literal(t, v[1], v[2]) :
        t \in Terms,
        v \in {<<<<"f", "o", "o">>, AppCommand("About")>>, <<<<"b", "a", "r">>, AppCommand("Help")>>,
               <<<<>>, AppCommand("Help")>>}}

SeqsUpTo(S, n) == UNION {[1..k -> S] : k \in 0..n}

\* a command that is no alias registers an alias
InsertAlias(a) ==
    /\ command_aliases' = hash_insert(command_aliases, a)
    /\ last' = [op |-> "insert", alias |-> a]
    /\ UNCHANGED <<cache, recent, ring, time, data_store_enabled, store, storeKV, calls,
                   fields, pushes, budget>>

\* the input is parsed as an alias and the alias is run
RunAlias(input, registered) ==
    LET parsed == alias_parse_input(input, command_aliases)
    IN  /\ is_some(parsed.exact)
        /\ LET r == alias_run(command_aliases, registered)
           IN  /\ command_aliases' = r.aliases
               /\ last' = [op |-> "alias_run", input |-> input,
                           alias |-> unwrap(parsed.exact),
                           seen |-> r.seen, registered |-> r.registered]
        /\ UNCHANGED <<cache, recent, ring, time, data_store_enabled, store, storeKV, calls,
                       fields, pushes, budget>>

InitAlias ==
    /\ RepoInit
    /\ command_aliases = {}
    /\ fields = EmptyMap
    /\ last = [op |-> "new"]
    /\ pushes = 0
    /\ budget = [push |-> 0, ops |-> 0, fill |-> 0]

NextAlias ==
    \/ \E a \in AliasUniverse : InsertAlias(a)
    \/ \E input \in Terms, registered \in SeqsUpTo(AliasUniverse, MaxRegistered) :
           RunAlias(input, registered)

SpecAlias == InitAlias /\ [][NextAlias]_vars

(***************************************************************************)
(* Alias claims.                                                           *)
(***************************************************************************)
\* C1: the registry holds at most one alias per term: two aliases are equal,
\* and hash alike, exactly when their terms are equal, whatever their
\* summaries and commands, and inserting an alias whose term is present adds
\* no member.
C1_OneAliasPerTerm ==
    /\ [](\A a, b \in command_aliases : a.term = b.term => a = b)
    /\ [](\A a, b \in AliasUniverse :
            /\ alias_eq(a, b) <=> (a.term = b.term)
            /\ (a.term = b.term) => alias_hash(a) = alias_hash(b))
    /\ [][(/\ last'.op = "insert"
           /\ \E b \in command_aliases : b.term = last'.alias.term)
            => command_aliases' = command_aliases]_vars

C1_Witness ==
    /\ last.op = "insert"
    /\ last.alias \notin command_aliases
    /\ \E b \in command_aliases :
           /\ b.term = last.alias.term
           /\ b.summary # last.alias.summary
           /\ b.command # last.alias.command

\* C7: when a literal alias is run and its wrapped command registers no
\* alias, the registry after the run is exactly the registry before it,
\* although the wrapped command ran against an empty registry.
C7_RunRestoresRegistry ==
    [][(last'.op = "alias_run" /\ last'.registered = {})
        => /\ command_aliases' = command_aliases
           /\ last'.seen = {}]_vars

C7_Witness ==
    /\ last.op = "alias_run"
    /\ last.registered = {}
    /\ last.seen = {}
    /\ Cardinality(command_aliases) >= 2

\* C8: when the wrapped command registers at least one alias, the registry
\* after the run holds the newly registered aliases and the aliases that
\* existed before, and for a term present in both, the alias kept is the one
\* the wrapped command registered.
C8_MergeNewWins ==
    [][(last'.op = "alias_run" /\ last'.registered # {})
        => /\ last'.registered \subseteq command_aliases'
           /\ command_aliases' \subseteq last'.registered \cup command_aliases
           /\ \A o \in command_aliases :
                  IF \E n \in last'.registered : n.term = o.term
                  THEN \A a \in command_aliases' : a.term = o.term => a \in last'.registered
                  ELSE o \in command_aliases']_vars

C8_Witness ==
    /\ last.op = "alias_run"
    /\ \E n \in last.registered, o \in command_aliases :
           /\ n.term # o.term
           /\ o \notin last.registered
    /\ \E n \in last.registered : n.term = last.alias.term /\ n # last.alias

(***************************************************************************)
(* Field: the attributes of one entity, each a Field, under replace,       *)
(* replace_with and clear.                                                 *)
(***************************************************************************)
MaxValue == 2   \* attribute values are 1..MaxValue

Values == 1..MaxValue
Attributes == {"name", "age"}
OptionValues == {None} \cup {Some(v) : v \in Values}

\* the fields an entity is built with: Field::new, Field::new_generated,
\* Field::default
BuiltFields ==
    {FieldDefault} \cup {FieldNew(v) : v \in Values}
        \cup {FieldNewGenerated(v) : v \in Values}

Replace(attr, v) ==
    /\ fields' = [fields EXCEPT ![attr] = replace(@, v)]
    /\ last' = [op |-> "replace", attr |-> attr, arg |-> v]
    /\ UNCHANGED <<cache, recent, ring, time, data_store_enabled, store, storeKV, calls,
                   command_aliases, pushes, budget>>

ReplaceWith(attr, F) ==
    /\ fields' = [fields EXCEPT ![attr] = replace_with(@, F)]
    /\ last' = [op |-> "replace_with", attr |-> attr, arg |-> F]
    /\ UNCHANGED <<cache, recent, ring, time, data_store_enabled, store, storeKV, calls,
                   command_aliases, pushes, budget>>

Clear(attr) ==
    /\ fields' = [fields EXCEPT ![attr] = clear(@)]
    /\ last' = [op |-> "clear", attr |-> attr]
    /\ UNCHANGED <<cache, recent, ring, time, data_store_enabled, store, storeKV, calls,
                   command_aliases, pushes, budget>>

InitField ==
    /\ RepoInit
    /\ command_aliases = {}
    /\ fields \in [Attributes -> BuiltFields]
    /\ last = [op |-> "new"]
    /\ pushes = 0
    /\ budget = [push |-> 0, ops |-> 0, fill |-> 0]

NextField ==
    \/ \E attr \in Attributes, v \in Values : Replace(attr, v)
    \/ \E attr \in Attributes, F \in [OptionValues -> Values] : ReplaceWith(attr, F)
    \/ \E attr \in Attributes : Clear(attr)

SpecField == InitField /\ [][NextField]_vars

\* C6: a locked Field holding V keeps the value V and stays locked under any
\* replace, replace_with and clear; an unlocked Field takes the value W on
\* replace(W), is empty after clear(), and stays unlocked.
C6_LockedFieldKeepsValue ==
    [][\A attr \in Attributes :
        /\ is_locked(fields[attr]) => fields'[attr] = fields[attr]
        /\ is_unlocked(fields[attr]) =>
            /\ is_unlocked(fields'[attr])
            /\ (last'.op = "replace" /\ last'.attr = attr)
                   => value(fields'[attr]) = Some(last'.arg)
            /\ (last'.op = "clear" /\ last'.attr = attr)
                   => value(fields'[attr]) = None]_vars

C6_Witness ==
    /\ last.op \in {"replace", "replace_with"}
    /\ is_locked(fields[last.attr])
    /\ is_some(value(fields[last.attr]))
    /\ last.op = "replace" => value(fields[last.attr]) # Some(last.arg)
    /\ \E other \in Attributes :
           is_unlocked(fields[other]) /\ value(fields[other]) = None

(***************************************************************************)
(* Text.  A text is a sequence of lines, a line a sequence of characters;  *)
(* a file included with include_str!, and a formatted value that is not a  *)
(* name, is one character of its own.                                      *)
(***************************************************************************)
\* str::trim_start_matches(&[..])
RECURSIVE trim_start_matches(_, _)
trim_start_matches(s, set) ==
    IF s # <<>> /\ Head(s) \in set THEN trim_start_matches(Tail(s), set) ELSE s

\* str::find(char), str::rfind(char): the position, 0 for None
find_char(s, c) ==
    LET hits == {i \in 1..Len(s) : s[i] = c}
    IN  IF hits = {} THEN 0 ELSE CHOOSE i \in hits : \A j \in hits : i <= j

rfind_char(s, c) ==
    LET hits == {i \in 1..Len(s) : s[i] = c}
    IN  IF hits = {} THEN 0 ELSE CHOOSE i \in hits : \A j \in hits : i >= j

\* the backquote character, which the module language keeps out of strings
Backquote == "^"

\* the span of a line between its first and its last backquote:
\* s.get(a + 1..b) for a = s.find(..), b = s.rfind(..)
backticked(s) ==
    LET a == find_char(s, Backquote)
        b == rfind_char(s, Backquote)
    IN  IF a # 0 /\ b # 0 /\ a + 1 <= b THEN Some(SubSeq(s, a + 1, b - 1)) ELSE None

\* the first line a predicate holds of (Iterator::find), None when there is none
first_line_with_prefix(lines, prefix) ==
    LET hits == {i \in 1..Len(lines) : starts_with(lines[i], prefix)}
    IN  IF hits = {} THEN None ELSE Some(lines[CHOOSE i \in hits : \A j \in hits : i <= j])

(***************************************************************************)
(* The application state a command runs against (AppMeta), as a record.    *)
(***************************************************************************)
AppMeta ==
    [cache |-> cache, recent |-> recent, ring |-> ring, store |-> store, storeKV |-> storeKV,
     time |-> time, data_store_enabled |-> data_store_enabled, calls |-> <<>>,
     aliases |-> command_aliases, pushes |-> pushes]

\* Repository::recent: the first slice of the buffer
repo_recent(rec, r) == as_slices_0(rec, r)

\* Repository::load_thing_by_name: the entities find may yield (cache first,
\* in the order of the map, then recent in its order)
load_thing_by_name(c, rec, r, name) ==
    LET lowercase_name == to_lowercase(name)
        in_cache == cache_matches(c, lowercase_name)
        index == find_recent(repo_recent(rec, r), lowercase_name)
    IN  IF in_cache # {} THEN {c[k] : k \in in_cache}
        ELSE IF index # 0 THEN {repo_recent(rec, r)[index]}
        ELSE {}

(***************************************************************************)
(* The commands the tutorial hands its input to.  Their code is outside    *)
(* the files modelled here, except the Repository operations they call;    *)
(* they are modelled after what the tutorial expects of them.              *)
(***************************************************************************)
Command(family, variant, name) ==
    [BlankCommand EXCEPT !.family = family, !.variant = variant, !.name = name]

ReferenceInputs == {<<"j", "o", "u", "r", "n", "a", "l">>, <<"F", "i", "r", "e", "b", "a", "l", "l">>, <<"w", "e", "a", "p", "o", "n", "s">>, <<"d", "2", "0", "+", "4">>}
TimeInputs == {<<"t", "i", "m", "e">>, <<"d", "a", "t", "e">>, <<"n", "o", "w">>}

\* a parser that tries the built-in generator words before the aliases
parse_built_in_first(input, app) ==
    IF input \in {<<"i", "n", "n">>, <<"n", "p", "c">>}
    THEN [via_alias |-> FALSE, command |-> Command("World", "Create", input)]
    ELSE IF is_some(alias_parse_input(input, app.aliases).exact)
    THEN [via_alias |-> TRUE,
          command |-> unwrap(alias_parse_input(input, app.aliases).exact).command]
    ELSE [via_alias |-> FALSE, command |-> Command("App", "Unknown", input)]

\* Command::parse_input_irrefutable: a registered literal alias first, then
\* the built-in grammar, then a command that only reports the input as unknown
parse_input_irrefutable(input, app) ==
    LET lit == alias_parse_input(input, app.aliases)
    IN  IF is_some(lit.exact)
        THEN [via_alias |-> TRUE, command |-> unwrap(lit.exact).command]
        ELSE [via_alias |-> FALSE,
              command |->
                IF input \in {<<"i", "n", "n">>, <<"n", "p", "c">>} THEN Command("World", "Create", input)
                ELSE IF starts_with(input, <<"s", "a", "v", "e", " ">>)
                THEN Command("Storage", "Save", SubSeq(input, 6, Len(input)))
                ELSE IF starts_with(input, <<"l", "o", "a", "d", " ">>)
                THEN Command("Storage", "Load", SubSeq(input, 6, Len(input)))
                ELSE IF starts_with(input, <<"d", "e", "l", "e", "t", "e", " ">>)
                THEN Command("Storage", "Delete", SubSeq(input, 8, Len(input)))
                ELSE IF input = <<"+", "3", "0", "m">> THEN Command("Time", "Add", input)
                ELSE IF input \in TimeInputs THEN Command("Time", "Now", input)
                ELSE IF input \in ReferenceInputs THEN Command("Reference", "Show", input)
                ELSE IF load_thing_by_name(app.cache, app.recent, app.ring, input) # {}
                THEN Command("Storage", "Load", input)
                ELSE Command("App", "Unknown", input)]

\* the text of a repository result
result_text(r) == [ok |-> r.ok, text |-> <<<<r.kind>> \o r.arg>>]

\* Time + 30 minutes
add_30m(t) ==
    LET m == t.minutes + 30
        h == t.hours + (m \div 60)
    IN  [days |-> t.days + (h \div 24), hours |-> h % 24, minutes |-> m % 60,
         seconds |-> t.seconds]

\* The generator behind "inn" and "npc".  env.name is the generated name,
\* env.alt the name of the alternative listed under ~1~ (None for no
\* alternative); both entities go to recent.  The "more" alias is registered
\* in any case, the "save" alias for the generated entity only with the data
\* store enabled, the "1" alias with the alternative.
generate(desc, app, env) ==
    LET more == literal(<<"m", "o", "r", "e">>, <<"c", "r", "e", "a", "t", "e", " ">> \o desc, Command("World", "CreateMultiple", desc))
        with_more == hash_insert(app.aliases, more)
        thing == [Thing(app.pushes + 1, FieldNewGenerated(env.name))
                     EXCEPT !.gender = IF desc = <<"n", "p", "c">> THEN env.gender ELSE "Neuter"]
        has_alt == /\ desc = <<"n", "p", "c">>
                   /\ is_some(env.alt)
                   /\ unwrap(env.alt) # env.name
                   /\ load_thing_by_name(app.cache, app.recent, app.ring, unwrap(env.alt)) = {}
        alt_thing == [Thing(app.pushes + 2, FieldNewGenerated(unwrap(env.alt)))
                         EXCEPT !.gender = env.alt_gender]
        pushed == IF has_alt
                  THEN push_recent(push_recent(app.recent, thing), alt_thing)
                  ELSE push_recent(app.recent, thing)
        save == literal(<<"s", "a", "v", "e">>, <<"s", "a", "v", "e", " ">> \o env.name, Command("Storage", "Save", env.name))
        one == literal(<<"1">>, <<"l", "o", "a", "d", " ">> \o unwrap(env.alt),
                       Command("Storage", "Load", unwrap(env.alt)))
        with_save == IF app.data_store_enabled THEN hash_insert(with_more, save)
                     ELSE with_more
    IN  IF load_thing_by_name(app.cache, app.recent, app.ring, env.name) # {}
        THEN [result |-> [ok |-> FALSE,
                          text |-> <<<<"Couldn't create a unique name: ">> \o desc>>],
              app |-> [app EXCEPT !.aliases = with_more]]
        ELSE [result |-> [ok |-> TRUE,
                          text |-> <<<<"#", " ">> \o env.name>>
                                   \o (IF has_alt
                                       THEN <<<<"~", "1", "~", " ">> \o <<Backquote>> \o unwrap(env.alt) \o <<Backquote>> \o <<" ", "(">>
                                                \o <<env.alt_gender>> \o <<")">>>>
                                       ELSE <<>>)],
              app |-> [app EXCEPT !.recent = pushed,
                                  !.ring = IF has_alt
                                           THEN ring_push_recent(
                                                    ring_push_recent(@, Len(app.recent)),
                                                    Len(push_recent(app.recent, thing)))
                                           ELSE ring_push_recent(@, Len(app.recent)),
                                  !.pushes = @ + (IF has_alt THEN 2 ELSE 1),
                                  !.aliases = IF has_alt THEN hash_insert(with_save, one)
                                              ELSE with_save]]

\* the application state and the text after a Repository operation
repository_ran(app, r) ==
    [result |-> result_text(r.result),
     app |-> [app EXCEPT !.cache = r.cache, !.recent = r.recent, !.store = r.store,
                         !.calls = @ \o r.calls]]

\* the application state and the text after Repository::set_time
time_ran(app, r) ==
    [result |-> [ok |-> TRUE, text |-> <<<<"It is now ">> \o display_short(r.time)>>],
     app |-> [app EXCEPT !.storeKV = r.storeKV, !.time = r.time, !.calls = @ \o r.calls]]

\* the cache entry cache.iter().find yields for a name
found_in_cache(c, name) ==
    LET hits == cache_matches(c, to_lowercase(name))
    IN  IF hits = {} THEN None ELSE Some(CHOOSE k \in hits : TRUE)

\* Runnable::run of a command that is no alias and no tutorial step.  Loading
\* an entity that is not saved registers the "save" alias for it.
command_run(command, input, app, env) ==
    CASE command.family = "World" /\ command.variant = "Create" ->
            generate(command.name, app, env)
      [] command.family = "Storage" /\ command.variant = "Save" ->
            repository_ran([app EXCEPT !.ring = save_thing_ring(@, app.recent, command.name,
                                                                env.store_ok)],
                           save_thing_by_name(app.cache, app.recent, app.store,
                                              command.name, env.store_ok, env.uuid))
      [] command.family = "Storage" /\ command.variant = "Delete" ->
            repository_ran([app EXCEPT !.ring = delete_thing_ring(
                                                    @, app.recent, command.name,
                                                    found_in_cache(app.cache, command.name))],
                           delete_thing_by_name(app.cache, app.recent, app.store,
                                                command.name,
                                                found_in_cache(app.cache, command.name),
                                                env.store_ok))
      [] command.family = "Storage" /\ command.variant = "Load" ->
            LET hits == load_thing_by_name(app.cache, app.recent, app.ring, command.name)
                thing == CHOOSE t \in hits : TRUE
                save == literal(<<"s", "a", "v", "e">>, <<"s", "a", "v", "e", " ">> \o Display(thing.name),
                                Command("Storage", "Save", Display(thing.name)))
            IN  IF hits = {}
                THEN [result |-> [ok |-> FALSE,
                                  text |-> <<<<"No matches for ">> \o command.name>>],
                      app |-> app]
                ELSE [result |-> [ok |-> TRUE, text |-> <<<<"#", " ">> \o Display(thing.name)>>],
                      app |-> IF app.data_store_enabled /\ thing.uuid = None
                              THEN [app EXCEPT !.aliases = hash_insert(@, save)]
                              ELSE app]
      [] command.family = "Time" /\ command.variant = "Add" ->
            time_ran(app, set_time(app.storeKV, add_30m(app.time), env.store_ok))
      [] command.family = "Time" /\ command.variant = "Now" ->
            [result |-> [ok |-> TRUE, text |-> <<<<"It is currently ">> \o display_short(app.time)>>],
             app |-> app]
      [] command.family = "Reference" ->
            [result |-> [ok |-> TRUE, text |-> <<<<"#", " ">> \o command.name>>], app |-> app]
      [] OTHER ->
            [result |-> [ok |-> FALSE, text |-> <<<<"Unknown command: ">> \o command.name>>],
             app |-> app]

\* a set as a sequence, in some order
RECURSIVE SetToSeq(_)
SetToSeq(S) ==
    IF S = {} THEN <<>>
    ELSE LET x == CHOOSE x \in S : TRUE IN <<x>> \o SetToSeq(S \ {x})

\* a command has run
command_ran(command, r) ==
    [result |-> r.result, app |-> r.app, executed |-> <<command>>]

\* an alias that reports success whatever its command returned
alias_ran_ok(app, command, inner) ==
    [result |-> [inner.result EXCEPT !.ok = TRUE],
     app |-> inner.app,
     executed |-> <<command>>]

\* the command wrapped in a literal alias has run against the empty registry:
\* CommandAlias::run merges the registry it had put aside
alias_ran(app, command, inner) ==
    [result |-> inner.result,
     app |-> [inner.app EXCEPT
                 !.aliases = alias_run(app.aliases, SetToSeq(inner.app.aliases)).aliases],
     executed |-> <<command>>]

\* Command::run of what parse_input_irrefutable returned: a literal alias
\* runs its wrapped command through CommandAlias::run
run_parsed(parsed, input, app, env) ==
    IF parsed.via_alias
    THEN alias_ran(app, parsed.command,
                   command_run(parsed.command, input, [app EXCEPT !.aliases = {}], env))
    ELSE command_ran(parsed.command, command_run(parsed.command, input, app, env))

(***************************************************************************)
(* TutorialCommand (app/command/tutorial.rs).  A state is a command record *)
(* of family "Tutorial" whose variant is the state's name and whose other  *)
(* fields are the names the state has captured.                            *)
(***************************************************************************)
TutorialCommand(variant, inn_name, npc_gender, npc_name, other_npc_name) ==
    [BlankCommand EXCEPT !.family = "Tutorial", !.variant = variant,
                         !.inn_name = inn_name, !.npc_gender = npc_gender,
                         !.npc_name = npc_name, !.other_npc_name = other_npc_name]

Introduction == TutorialCommand("Introduction", <<>>, "", <<>>, <<>>)

\* String::is_empty of a text
is_empty(text) == text = <<>> \/ text = <<<<>>>>

\* String::push_str: the first line pushed continues the last line
push_str(text, pushed) ==
    IF text = <<>> THEN pushed
    ELSE IF pushed = <<>> THEN text
    ELSE SubSeq(text, 1, Len(text) - 1) \o <<text[Len(text)] \o pushed[1]>> \o Tail(pushed)

\* "\n\n#"
SectionBreak == <<<<>>, <<>>, <<"#">>>>

\* the lesson file of a state with its format arguments; the pronouns of a
\* gender are the gender itself
lesson(self) ==
    CASE self.variant = "Introduction" -> <<>>
      [] self.variant = "Inn" -> <<<<"00-intro.md">>>>
      [] self.variant = "Save" -> <<<<"01-inn.md">>>>
      [] self.variant = "Npc" -> <<<<"02-save.md">> \o self.inn_name>>
      [] self.variant = "NpcOther" -> <<<<"03-npc.md">>>>
      [] self.variant = "SaveByName" ->
            <<<<"04-npc-other.md">> \o self.npc_name \o <<"|">> \o self.other_npc_name
                \o <<self.npc_gender>>>>
      [] self.variant = "Journal" ->
            <<<<"05-save-by-name.md">> \o self.inn_name \o <<"|">> \o self.npc_name
                \o <<self.npc_gender>>>>
      [] self.variant = "LoadByName" -> <<<<"06-journal.md">>>>
      [] self.variant = "Spell" -> <<<<"07-load-by-name.md">> \o self.npc_name>>
      [] self.variant = "Weapons" ->
            <<<<"08-spell.md">> \o self.npc_name \o <<self.npc_gender>>>>
      [] self.variant = "Roll" ->
            <<<<"09-weapons.md">> \o self.inn_name \o <<"|">> \o self.npc_name
                \o <<IF self.npc_gender = "Trans" THEN "pull" ELSE "pulls", self.npc_gender>>>>
      [] self.variant = "Delete" ->
            <<<<"10-roll.md">> \o self.npc_name \o <<self.npc_gender>>>>
      [] self.variant = "AdjustTime" ->
            <<<<"11-delete.md">> \o self.npc_name \o <<self.npc_gender>>>>
      [] self.variant = "Time" -> <<<<"12-adjust-time.md">>>>
      [] self.variant = "Conclusion" -> <<<<"13-time.md">>>>

\* TutorialCommand::output; command_output is an Option of a result
output(self, command_output) ==
    LET is_ok == IF is_some(command_output) THEN unwrap(command_output).ok ELSE TRUE
        text == IF is_some(command_output) THEN unwrap(command_output).text ELSE <<>>
        broken == IF ~is_empty(text) THEN push_str(text, SectionBreak) ELSE text
    IN  [ok |-> is_ok, text |-> push_str(broken, lesson(self))]

\* the guard without the test of the length
name_shaped_any_length(input, verb, name) ==
    /\ starts_with(input, verb)
    /\ ends_with(input, name)

\* the guard comparing without regard to case
name_shaped_any_case(input, verb, name) ==
    to_lowercase(input) = to_lowercase(verb \o name)

\* input.starts_with(verb) && input.ends_with(name)
\*     && input.len() == verb.len() + name.len()
name_shaped(input, verb, name) ==
    /\ starts_with(input, verb)
    /\ ends_with(input, name)
    /\ Len(input) = Len(verb) + Len(name)

\* the match guards of run: does the state take the input?
accepts(self, input) ==
    CASE self.variant = "Introduction" -> TRUE
      [] self.variant = "Inn" -> input = <<"n", "e", "x", "t">>
      [] self.variant = "Save" -> input = <<"i", "n", "n">>
      [] self.variant = "Npc" ->
            input = <<"s", "a", "v", "e">> \/ name_shaped(input, <<"s", "a", "v", "e", " ">>, self.inn_name)
      [] self.variant = "NpcOther" -> input = <<"n", "p", "c">>
      [] self.variant = "SaveByName" ->
            input = <<"1">> \/ input = self.npc_name
                \/ name_shaped(input, <<"l", "o", "a", "d", " ">>, self.npc_name)
      [] self.variant = "Journal" ->
            input = <<"s", "a", "v", "e">> \/ name_shaped(input, <<"s", "a", "v", "e", " ">>, self.npc_name)
      [] self.variant = "LoadByName" -> input = <<"j", "o", "u", "r", "n", "a", "l">>
      [] self.variant = "Spell" ->
            input = self.npc_name \/ name_shaped(input, <<"l", "o", "a", "d", " ">>, self.npc_name)
      [] self.variant = "Weapons" -> input = <<"F", "i", "r", "e", "b", "a", "l", "l">>
      [] self.variant = "Roll" -> input = <<"w", "e", "a", "p", "o", "n", "s">>
      [] self.variant = "Delete" -> input = <<"d", "2", "0", "+", "4">>
      [] self.variant = "AdjustTime" -> name_shaped(input, <<"d", "e", "l", "e", "t", "e", " ">>, self.npc_name)
      [] self.variant = "Time" -> input = <<"+", "3", "0", "m">>
      [] self.variant = "Conclusion" -> input \in {<<"t", "i", "m", "e">>, <<"d", "a", "t", "e">>, <<"n", "o", "w">>}
      [] OTHER -> FALSE

\* the outcome of one arm: the result, the next state (None ends the
\* tutorial), the application state, and the commands that were run
Arm(result, next, app, executed) ==
    [result |-> result, next |-> next, app |-> app, executed |-> executed]

\* the arms that move on, answering with the lesson alone
advance_lesson_only(next, ran) ==
    Arm(output(next, None), Some(next), ran.app, ran.executed)

\* the arms that move on and answer Ok whatever the command returned
advance_answering_ok(next, ran) ==
    Arm([output(next, Some(ran.result)) EXCEPT !.ok = TRUE], Some(next), ran.app,
        ran.executed)

\* the arms that move on and lose the character's name on the way
advance_forgetting(next, ran) ==
    Arm(output(next, Some(ran.result)), Some([next EXCEPT !.npc_name = <<>>]), ran.app,
        ran.executed)

\* the arms that run the input's command and move on whatever it returns
advance(next, ran) ==
    Arm(output(next, Some(ran.result)), Some(next), ran.app, ran.executed)

\* the default arm, run with the command left alone
rejected_runs_command(self, ran, app) ==
    Arm([ok |-> TRUE, text |-> <<<<"xx-still-active.md">>>>], Some(self), ran.app,
        ran.executed)

\* the default arm of run
rejected(self, ran, app) ==
    Arm([ok |-> TRUE, text |-> <<<<"xx-still-active.md">>>>], Some(self), app, <<>>)

\* the arm of state NpcOther that never gets the names out of the output
npc_other_never_captures(self, ran) ==
    Arm(ran.result, Some(self), ran.app, ran.executed)

\* the arm of state NpcOther: the names are read off the command's output,
\* the gender off the entity of that name in recent
npc_other(self, ran) ==
    LET lines == ran.result.text
        other_npc_name ==
            IF lines = <<>> THEN None
            ELSE Some(trim_start_matches(lines[1], {" ", "#"}))
        listed == IF lines = <<>> THEN None
                  ELSE first_line_with_prefix(Tail(lines), <<"~", "1", "~", " ">>)
        npc_name == IF is_some(listed) THEN backticked(unwrap(listed)) ELSE None
        rec == repo_recent(ran.app.recent, ran.app.ring)
        hits == {i \in 1..Len(rec) : value(rec[i].name) = npc_name}
        npc_gender ==
            IF hits = {} THEN None
            ELSE Some(rec[CHOOSE i \in hits : \A j \in hits : i <= j].gender)
    IN  IF ran.result.ok
        THEN IF is_some(npc_name) /\ is_some(other_npc_name) /\ is_some(npc_gender)
             THEN LET next == TutorialCommand("SaveByName", self.inn_name,
                                              unwrap(npc_gender), unwrap(npc_name),
                                              unwrap(other_npc_name))
                  IN  Arm(output(next, Some(ran.result)), Some(next), ran.app, ran.executed)
             ELSE Arm(ran.result, Some(self), ran.app, ran.executed)
        ELSE Arm(ran.result, Some(self), ran.app, ran.executed)

\* the arms of run whose guard holds.  ran is input_command.run(input,
\* app_meta): its result, the application state it leaves, what it executed.
accepted(self, input, app, ran) ==
    LET inn == self.inn_name
        g == self.npc_gender
        npc == self.npc_name
    IN  CASE self.variant = "Introduction" ->
                LET next == TutorialCommand("Inn", <<>>, "", <<>>, <<>>)
                    alias == literal(<<"n", "e", "x", "t">>, <<"c", "o", "n", "t", "i", "n", "u", "e", " ", "t", "h", "e", " ", "t", "u", "t", "o", "r", "i", "a", "l">>, next)
                IN  Arm(output(next, None), Some(next),
                        [app EXCEPT !.aliases = hash_insert(@, alias)], <<>>)
          [] self.variant = "Inn" ->
                LET next == TutorialCommand("Save", <<>>, "", <<>>, <<>>)
                IN  Arm(output(next, None), Some(next), app, <<>>)
          [] self.variant = "Save" ->
                IF ran.result.ok
                THEN LET inn_name == trim_start_matches(ran.result.text[1], {" ", "#"})
                         next == TutorialCommand("Npc", inn_name, "", <<>>, <<>>)
                     IN  Arm(output(next, Some(ran.result)), Some(next), ran.app,
                             ran.executed)
                ELSE Arm(ran.result, Some(self), ran.app, ran.executed)
          [] self.variant = "Npc" ->
                advance(TutorialCommand("NpcOther", inn, "", <<>>, <<>>), ran)
          [] self.variant = "NpcOther" -> npc_other(self, ran)
          [] self.variant = "SaveByName" ->
                IF ran.result.ok
                THEN advance(TutorialCommand("Journal", inn, g, npc, <<>>), ran)
                ELSE Arm(ran.result, Some(self), ran.app, ran.executed)
          [] self.variant = "Journal" ->
                advance(TutorialCommand("LoadByName", inn, g, npc, <<>>), ran)
          [] self.variant = "LoadByName" ->
                advance(TutorialCommand("Spell", inn, g, npc, <<>>), ran)
          [] self.variant = "Spell" ->
                advance(TutorialCommand("Weapons", inn, g, npc, <<>>), ran)
          [] self.variant = "Weapons" ->
                advance(TutorialCommand("Roll", inn, g, npc, <<>>), ran)
          [] self.variant = "Roll" ->
                advance(TutorialCommand("Delete", <<>>, g, npc, <<>>), ran)
          [] self.variant = "Delete" ->
                advance(TutorialCommand("AdjustTime", <<>>, g, npc, <<>>), ran)
          [] self.variant = "AdjustTime" ->
                advance(TutorialCommand("Time", <<>>, "", <<>>, <<>>), ran)
          [] self.variant = "Time" ->
                advance(TutorialCommand("Conclusion", <<>>, "", <<>>, <<>>), ran)
          [] self.variant = "Conclusion" ->
                Arm(IF ran.result.ok
                    THEN [ok |-> TRUE,
                          text |-> push_str(push_str(ran.result.text, SectionBreak),
                                            <<<<"99-conclusion.md">>>>)]
                    ELSE ran.result,
                    None, ran.app, ran.executed)

\* the end of run that binds nothing
install_never(arm) == arm

\* the end of run that binds a strict wildcard even when no state follows
install_after_the_end(arm) ==
    [arm EXCEPT !.app.aliases =
        hash_insert(@, strict_wildcard(IF is_some(arm.next) THEN unwrap(arm.next)
                                       ELSE Introduction))]

\* the end of run: the next state, if there is one, is bound to the strict
\* wildcard
install(arm) ==
    IF is_some(arm.next)
    THEN [arm EXCEPT !.app.aliases = hash_insert(@, strict_wildcard(unwrap(arm.next)))]
    ELSE arm

\* TutorialCommand::run.  ran is what input_command.run(input, app_meta)
\* returns and leaves behind where an arm calls it.
tutorial_run(self, input, app, ran) ==
    install(IF accepts(self, input) THEN accepted(self, input, app, ran)
            ELSE rejected(self, ran, app))

\* Command::parse_input_irrefutable(input, app_meta).run(input, app_meta)
input_command_run(input, app, env) ==
    run_parsed(parse_input_irrefutable(input, app), input, app, env)

\* TutorialCommand::parse_input: the exact match
tutorial_parse_input(input) == IF input = <<"t", "u", "t", "o", "r", "i", "a", "l">> THEN Some(Introduction) ELSE None

(***************************************************************************)
(* The tutorial's environment: what the user types, the names the          *)
(* generator comes up with, the data store's answers.                      *)
(***************************************************************************)
MaxStarts == 1  \* times the tutorial is started

InnNames == {<<"O", "a", "k">>}
NpcNames == {<<"A", "n", "n">>, <<"B", "o">>}
Genders == {"Feminine", "Trans"}

TutorialInputs ==
    {<<"t", "u", "t", "o", "r", "i", "a", "l">>, <<"n", "e", "x", "t">>, <<"i", "n", "n">>, <<"s", "a", "v", "e">>, <<"n", "p", "c">>, <<"1">>, <<"j", "o", "u", "r", "n", "a", "l">>, <<"F", "i", "r", "e", "b", "a", "l", "l">>, <<"w", "e", "a", "p", "o", "n", "s">>,
     <<"d", "2", "0", "+", "4">>, <<"+", "3", "0", "m">>, <<"t", "i", "m", "e">>, <<"d", "a", "t", "e">>, <<"n", "o", "w">>, <<"p", "o", "t", "a", "t", "o">>}
        \cup UNION {{n, <<"s", "a", "v", "e", " ">> \o n, to_lowercase(n), <<"s", "a", "v", "e", " ">> \o to_lowercase(n),
                     <<"s", "a", "v", "e", " ", " ">> \o n} :
                        n \in InnNames \cup NpcNames}
        \cup UNION {{<<"l", "o", "a", "d", " ">> \o n, <<"d", "e", "l", "e", "t", "e", " ">> \o n} : n \in NpcNames}

DefaultEnv ==
    [name |-> <<>>, alt |-> None, gender |-> "Trans", alt_gender |-> "Trans",
     store_ok |-> TRUE, uuid |-> new_v4]

\* what the environment can answer to an input
Envs(input) ==
    IF input = <<"i", "n", "n">> THEN {[DefaultEnv EXCEPT !.name = n] : n \in InnNames}
    ELSE IF input = <<"n", "p", "c">>
    THEN {[DefaultEnv EXCEPT !.name = n] : n \in NpcNames}
             \cup {[DefaultEnv EXCEPT !.name = n, !.alt = Some(a), !.alt_gender = g] :
                      n \in NpcNames, a \in NpcNames, g \in Genders}
    ELSE IF input = <<"+", "3", "0", "m">> \/ starts_with(input, <<"s", "a", "v", "e">>) \/ starts_with(input, <<"d", "e", "l", "e", "t", "e", " ">>)
    THEN {[DefaultEnv EXCEPT !.store_ok = ok] : ok \in BOOLEAN}
    ELSE {DefaultEnv}

\* the strict wildcards of the registry (at most one, all being equal)
wildcards == {a \in command_aliases : a.kind = "StrictWildcard"}

\* the states of a run that moved the tutorial on, appended to the states
\* visited since the tutorial was started
visited(trace, self, arm) ==
    IF is_some(arm.next) /\ unwrap(arm.next) # self
    THEN Append(trace, unwrap(arm.next).variant)
    ELSE trace

\* the application state after a tutorial run
TutorialRan(self, input, ran, arm, trace) ==
    /\ cache' = arm.app.cache
    /\ recent' = arm.app.recent
    /\ ring' = arm.app.ring
    /\ store' = arm.app.store
    /\ storeKV' = arm.app.storeKV
    /\ time' = arm.app.time
    /\ calls' = arm.app.calls
    /\ command_aliases' = arm.app.aliases
    /\ pushes' = arm.app.pushes
    /\ last' = [op |-> "tutorial_run", input |-> input, self |-> self,
                next |-> arm.next, result |-> arm.result, executed |-> arm.executed,
                command_output |-> IF arm.executed = <<>> THEN None ELSE Some(ran.result),
                trace |-> visited(trace, self, arm)]
    /\ UNCHANGED <<data_store_enabled, fields>>

\* no tutorial is active and the input parses as TutorialCommand::Introduction
TutorialStart(input, env) ==
    /\ wildcards = {}
    /\ budget.ops > 0
    /\ is_some(tutorial_parse_input(input))
    /\ \E self \in {unwrap(tutorial_parse_input(input))} :
       \E ran \in {input_command_run(input, AppMeta, env)} :
       \E arm \in {tutorial_run(self, input, AppMeta, ran)} :
           TutorialRan(self, input, ran, arm, <<>>)
    /\ budget' = [budget EXCEPT !.ops = @ - 1]

\* a tutorial is active: the strict wildcard takes the input, whatever it is,
\* leaves the registry and runs the state it is bound to
TutorialStep(input, env) ==
    /\ wildcards # {}
    /\ \E alias \in wildcards :
       \E app \in {[AppMeta EXCEPT !.aliases = @ \ {alias}]} :
       \E ran \in {input_command_run(input, app, env)} :
       \E arm \in {tutorial_run(alias.command, input, app, ran)} :
           TutorialRan(alias.command, input, ran, arm, last.trace)
    /\ UNCHANGED budget

InitTutorial ==
    /\ cache = EmptyMap
    /\ recent = <<>>
    /\ ring = RingNew
    /\ time = InitialTime
    /\ data_store_enabled \in BOOLEAN
    /\ store = EmptyMap
    /\ storeKV = None
    /\ calls = <<>>
    /\ command_aliases = {}
    /\ fields = EmptyMap
    /\ last = [op |-> "new", trace |-> <<>>]
    /\ pushes = 0
    /\ budget = [push |-> 0, ops |-> MaxStarts, fill |-> 0]

NextTutorial ==
    \/ \E input \in TutorialInputs : \E env \in Envs(input) : TutorialStart(input, env)
    \/ \E input \in TutorialInputs : \E env \in Envs(input) : TutorialStep(input, env)

SpecTutorial == InitTutorial /\ [][NextTutorial]_vars

(***************************************************************************)
(* Tutorial claims.                                                        *)
(***************************************************************************)
\* the states after Introduction, in the order of the lessons
TutorialOrder ==
    <<"Inn", "Save", "Npc", "NpcOther", "SaveByName", "Journal", "LoadByName", "Spell",
      "Weapons", "Roll", "Delete", "AdjustTime", "Time", "Conclusion">>

\* the state that follows a state that is not Conclusion
Successor(variant) ==
    IF variant = "Introduction" THEN TutorialOrder[1]
    ELSE TutorialOrder[1 + CHOOSE i \in 1..Len(TutorialOrder) : TutorialOrder[i] = variant]

\* the inputs each checkpoint is documented to expect
ExpectedInputs(self) ==
    CASE self.variant = "Introduction" -> {<<"t", "u", "t", "o", "r", "i", "a", "l">>}
      [] self.variant = "Inn" -> {<<"n", "e", "x", "t">>}
      [] self.variant = "Save" -> {<<"i", "n", "n">>}
      [] self.variant = "Npc" -> {<<"s", "a", "v", "e">>, <<"s", "a", "v", "e", " ">> \o self.inn_name}
      [] self.variant = "NpcOther" -> {<<"n", "p", "c">>}
      [] self.variant = "SaveByName" -> {<<"1">>, self.npc_name, <<"l", "o", "a", "d", " ">> \o self.npc_name}
      [] self.variant = "Journal" -> {<<"s", "a", "v", "e">>, <<"s", "a", "v", "e", " ">> \o self.npc_name}
      [] self.variant = "LoadByName" -> {<<"j", "o", "u", "r", "n", "a", "l">>}
      [] self.variant = "Spell" -> {self.npc_name, <<"l", "o", "a", "d", " ">> \o self.npc_name}
      [] self.variant = "Weapons" -> {<<"F", "i", "r", "e", "b", "a", "l", "l">>}
      [] self.variant = "Roll" -> {<<"w", "e", "a", "p", "o", "n", "s">>}
      [] self.variant = "Delete" -> {<<"d", "2", "0", "+", "4">>}
      [] self.variant = "AdjustTime" -> {<<"d", "e", "l", "e", "t", "e", " ">> \o self.npc_name}
      [] self.variant = "Time" -> {<<"+", "3", "0", "m">>}
      [] self.variant = "Conclusion" -> {<<"t", "i", "m", "e">>, <<"d", "a", "t", "e">>, <<"n", "o", "w">>}

\* the output lists an alternative under ~1~
ListsAlternative(text) == \E i \in 2..Len(text) : starts_with(text[i], <<"~", "1", "~", " ">>)

StillActive == [ok |-> TRUE, text |-> <<<<"xx-still-active.md">>>>]

\* C9: started with "tutorial", the tutorial visits Inn, Save, Npc, NpcOther,
\* SaveByName, Journal, LoadByName, Spell, Weapons, Roll, Delete, AdjustTime,
\* Time and Conclusion in this order and no other: the states visited are
\* always a prefix of that list, the active state is the last one visited,
\* so that Conclusion is the 14th; and every run that is fed an expected
\* input and whose command succeeds (for "npc": with an alternative
\* listed) moves on to the next state of the list.
C9_TutorialReachesConclusion ==
    /\ [](last.op = "tutorial_run" =>
            /\ Len(last.trace) \in 1..Len(TutorialOrder)
            /\ last.trace = SubSeq(TutorialOrder, 1, Len(last.trace))
            /\ \A a \in wildcards : a.command.variant = last.trace[Len(last.trace)]
            /\ \A a \in wildcards : a.command.variant = "Conclusion" => Len(last.trace) = 14)
    /\ [][(/\ last'.op = "tutorial_run"
           /\ last'.self.variant # "Conclusion"
           /\ last'.input \in ExpectedInputs(last'.self)
           /\ last'.result.ok
           /\ last'.self.variant = "NpcOther" => ListsAlternative(last'.result.text))
          => /\ is_some(last'.next)
             /\ unwrap(last'.next).variant = Successor(last'.self.variant)
             /\ wildcards' = {strict_wildcard(unwrap(last'.next))}
             /\ last'.trace
                   = Append(IF last'.self.variant = "Introduction" THEN <<>> ELSE last.trace,
                            Successor(last'.self.variant))]_vars

\* the run fed "+30m" in state Time has brought the tutorial to Conclusion,
\* the 14th state visited
C9_Witness ==
    /\ last.op = "tutorial_run"
    /\ last.self.variant = "Time"
    /\ last.result.ok
    /\ last.trace = TutorialOrder
    /\ \E a \in wildcards : a.command.variant = "Conclusion"

\* C10: a run of an active tutorial on an input its state does not expect
\* returns Ok with the still-active text, executes no command, leaves the
\* repository, the clock and the store as they were, and binds the strict
\* wildcard to the state it was bound to, captured names included.
C10_RejectedInputChangesNothing ==
    [][(/\ last'.op = "tutorial_run"
        /\ last'.input \notin ExpectedInputs(last'.self))
       => /\ last'.result = StillActive
          /\ last'.executed = <<>>
          /\ calls' = <<>>
          /\ UNCHANGED <<cache, recent, ring, time, store, storeKV, data_store_enabled, pushes>>
          /\ last'.next = Some(last'.self)
          /\ wildcards = {strict_wildcard(last'.self)}
          /\ wildcards' = wildcards
          /\ command_aliases' = command_aliases]_vars

\* state Journal, holding the names of the inn and of the character, has
\* been fed "+30m", which would have moved the clock
C10_Witness ==
    /\ last.op = "tutorial_run"
    /\ last.self.variant = "Journal"
    /\ last.self.npc_name \in NpcNames
    /\ last.input = <<"+", "3", "0", "m">>
    /\ last.result = StillActive
    /\ wildcards = {strict_wildcard(last.self)}
    /\ time = InitialTime

InputCommand(input) ==
    parse_input_irrefutable(input, [AppMeta EXCEPT !.aliases = @ \ wildcards]).command

\* a text followed by a section break and another text
Followed(text, other) == push_str(push_str(text, SectionBreak), other)

\* C12: a run of a state from Save onward on an input the state expects
\* executes the command of that input, once, and answers with what that
\* command returned: when the tutorial moves to another state, the command's
\* text, Ok or Err as the command returned it, followed by a section break
\* and the lesson of that state; when the tutorial ends, the command's text
\* followed by a section break and the conclusion; when the state stays, the
\* command's result as it is.
C12_TutorialNarratesRealCommand ==
    [][(/\ last'.op = "tutorial_run"
        /\ last'.self.variant \notin {"Introduction", "Inn"}
        /\ last'.input \in ExpectedInputs(last'.self))
       => /\ last'.executed = <<InputCommand(last'.input)>>
          /\ is_some(last'.command_output)
          /\ \E ran \in {unwrap(last'.command_output)} :
                IF last'.next = None
                THEN last'.result = IF ran.ok
                                    THEN [ok |-> TRUE,
                                          text |-> Followed(ran.text, <<<<"99-conclusion.md">>>>)]
                                    ELSE ran
                ELSE IF last'.next = Some(last'.self)
                THEN last'.result = ran
                ELSE /\ ran.text # <<>>
                     /\ last'.result = [ok |-> ran.ok,
                                        text |-> Followed(ran.text, lesson(unwrap(last'.next)))]]_vars

\* state Npc has been fed "save" and the save failed: the tutorial is in
\* NpcOther and has answered Err with the save's message followed by the
\* lesson of NpcOther
C12_Witness ==
    /\ last.op = "tutorial_run"
    /\ last.self.variant = "Npc"
    /\ last.input = <<"s", "a", "v", "e">>
    /\ last.executed # <<>>
    /\ ~last.result.ok
    /\ is_some(last.next)
    /\ unwrap(last.next).variant = "NpcOther"
    /\ last.result.text = Followed(unwrap(last.command_output).text, lesson(unwrap(last.next)))

\* C13: after every tutorial run that leaves the tutorial in a state, on an
\* expected input or not, the registry holds exactly one strict wildcard,
\* bound to that state with the names it has captured; and the run that
\* follows, whatever its input, is the run of that state.
C13_WildcardBoundToCurrentState ==
    /\ [](last.op = "tutorial_run" /\ is_some(last.next)
            => wildcards = {strict_wildcard(unwrap(last.next))})
    /\ [][(last.op = "tutorial_run" /\ is_some(last.next) /\ last'.op = "tutorial_run")
          => last'.self = unwrap(last.next)]_vars

\* the run of SaveByName on the character's name has moved the tutorial to
\* Journal, and the strict wildcard is bound to Journal with the names of the
\* inn and of the character
C13_Witness ==
    /\ last.op = "tutorial_run"
    /\ last.self.variant = "SaveByName"
    /\ last.input = last.self.npc_name
    /\ is_some(last.next)
    /\ unwrap(last.next).variant = "Journal"
    /\ unwrap(last.next).npc_name \in NpcNames
    /\ unwrap(last.next).inn_name \in InnNames
    /\ wildcards = {strict_wildcard(unwrap(last.next))}

(***************************************************************************)
(* WorldCommand::parse_input (world/command/mod.rs).  The parsers of thing *)
(* descriptions and utils::quoted_words are not part of the sources at     *)
(* hand: they are modelled over a small vocabulary, a description being    *)
(* understood when at least one of its words is known, and every other     *)
(* word being reported with its byte range.                                *)
(***************************************************************************)
MaxWords == 3   \* words of an input phrase

\* str::strip_prefix
strip_prefix(s, p) ==
    IF starts_with(s, p) THEN Some(SubSeq(s, Len(p) + 1, Len(s))) ELSE None

\* str::trim, the white space being the space
trim(s) ==
    LET inked == {i \in 1..Len(s) : s[i] # " "}
    IN  IF inked = {} THEN <<>>
        ELSE SubSeq(s, CHOOSE i \in inked : \A j \in inked : i <= j,
                       CHOOSE i \in inked : \A j \in inked : j <= i)

\* utils::quoted_words on a phrase without quotes: its words in order, each
\* with its byte range start..end (end exclusive)
quoted_words(s) ==
    LET starts == {i \in 1..Len(s) : s[i] # " " /\ (i = 1 \/ s[i - 1] = " ")}
        stop(i) == CHOOSE j \in i..Len(s) :
                      /\ \A k \in i..j : s[k] # " "
                      /\ j = Len(s) \/ s[j + 1] = " "
        nth(k) == CHOOSE i \in starts : Cardinality({j \in starts : j < i}) = k - 1
    IN  [k \in 1..Cardinality(starts) |->
            [str |-> SubSeq(s, nth(k), stop(nth(k))), start |-> nth(k) - 1,
             end |-> stop(nth(k))]]

\* the words a description of a character, of a place, may use
Vocabulary(kind) ==
    IF kind = "Npc" THEN {<<"n", "p", "c">>, <<"e", "l", "f">>} ELSE {<<"i", "n", "n">>}

\* ParsedThing { thing, unknown_words, word_count }
ParsedThing(thing, unknown_words, word_count) ==
    [thing |-> thing, unknown_words |-> unknown_words, word_count |-> word_count]

\* str::parse::<ParsedThing<Npc>>, ::<ParsedThing<Place>>: None stands for Err
parse_as(kind, s) ==
    LET words == quoted_words(s)
        known == {k \in 1..Len(words) : words[k].str \in Vocabulary(kind)}
        unknown == SelectSeq(words, LAMBDA w : w.str \notin Vocabulary(kind))
    IN  IF known = {} THEN None
        ELSE Some(ParsedThing([kind |-> kind,
                               traits |-> {words[k].str : k \in known}
                                             \ {<<"n", "p", "c">>}],
                              [k \in 1..Len(unknown) |->
                                  <<unknown[k].start, unknown[k].end>>],
                              Cardinality(known)))

\* str::parse::<ParsedThing<Thing>>: the reading, as a character or as a
\* place, that leaves fewer words unknown
parse_thing(s) ==
    LET npc == parse_as("Npc", s)
        place == parse_as("Place", s)
    IN  IF is_some(npc) /\ is_some(place)
        THEN IF Len(unwrap(npc).unknown_words) < Len(unwrap(place).unknown_words) THEN npc
             ELSE IF Len(unwrap(npc).unknown_words) > Len(unwrap(place).unknown_words)
             THEN place
             ELSE None
        ELSE IF is_some(npc) THEN npc ELSE place

\* WorldCommand::Create { thing }
Create(thing) == [variant |-> "Create", name |-> <<>>, parsed |-> thing]

\* WorldCommand::Edit { name, diff }
Edit(name, diff) == [variant |-> "Edit", name |-> name, parsed |-> diff]

\* the Create readings with the whole input parsed in any case
parse_create_no_else(input) ==
    LET stripped == strip_prefix(input, <<"c", "r", "e", "a", "t", "e", " ">>)
        made == IF is_some(stripped) THEN parse_thing(unwrap(stripped)) ELSE None
        whole == IF is_some(parse_thing(input))
                 THEN <<Create(unwrap(parse_thing(input)))>> ELSE <<>>
    IN  IF is_some(made)
        THEN IF unwrap(made).unknown_words = <<>>
             THEN [exact |-> Some(Create(unwrap(made))), fuzzy |-> whole]
             ELSE [exact |-> None, fuzzy |-> <<Create(unwrap(made))>> \o whole]
        ELSE [exact |-> None, fuzzy |-> whole]

\* the Create readings with every parsed rest taken as exact
parse_create_exact(input) ==
    LET stripped == strip_prefix(input, <<"c", "r", "e", "a", "t", "e", " ">>)
        made == IF is_some(stripped) THEN parse_thing(unwrap(stripped)) ELSE None
    IN  IF is_some(made)
        THEN [exact |-> Some(Create(unwrap(made))), fuzzy |-> <<>>]
        ELSE IF is_some(parse_thing(input))
        THEN [exact |-> None, fuzzy |-> <<Create(unwrap(parse_thing(input)))>>]
        ELSE [exact |-> None, fuzzy |-> <<>>]

\* WorldCommand::parse_input, the first statement: the Create readings
parse_create(input) ==
    LET stripped == strip_prefix(input, <<"c", "r", "e", "a", "t", "e", " ">>)
        made == IF is_some(stripped) THEN parse_thing(unwrap(stripped)) ELSE None
    IN  IF is_some(made)
        THEN IF unwrap(made).unknown_words = <<>>
             THEN [exact |-> Some(Create(unwrap(made))), fuzzy |-> <<>>]
             ELSE [exact |-> None, fuzzy |-> <<Create(unwrap(made))>>]
        ELSE IF is_some(parse_thing(input))
        THEN [exact |-> None, fuzzy |-> <<Create(unwrap(parse_thing(input)))>>]
        ELSE [exact |-> None, fuzzy |-> <<>>]

\* WorldCommand::parse_input, the second statement: the Edit reading of
\* "<name> is <description>"; word is the first "is" after the first word
parse_edit(input, word, c, rec, r) ==
    LET name == trim(SubSeq(input, 1, word.start))
        description == trim(SubSeq(input, word.end + 1, Len(input)))
        loaded == load_thing_by_name(c, rec, r, name)
        typed == IF loaded = {} THEN None
                 ELSE parse_as((CHOOSE t \in loaded : TRUE).tag, description)
        diff == IF is_some(typed) THEN typed ELSE parse_thing(description)
        shift == word.end + 1
    IN  IF is_some(diff)
        THEN <<Edit(IF loaded = {} THEN name ELSE Display((CHOOSE t \in loaded : TRUE).name),
                    [unwrap(diff) EXCEPT !.unknown_words =
                        [k \in 1..Len(@) |-> <<@[k][1] + shift, @[k][2] + shift>>]])>>
        ELSE <<>>

\* WorldCommand::parse_input
world_parse_input(input, c, rec, r) ==
    LET words == quoted_words(input)
        is_at == {k \in 2..Len(words) : words[k].str = <<"i", "s">>}
        edits == IF is_at = {} THEN <<>>
                 ELSE parse_edit(input, words[CHOOSE k \in is_at : \A j \in is_at : k <= j],
                                 c, rec, r)
    IN  [exact |-> parse_create(input).exact, fuzzy |-> parse_create(input).fuzzy \o edits]

\* the words of the phrases that are parsed
WorldWords == {<<"c", "r", "e", "a", "t", "e">>, <<"n", "p", "c">>, <<"e", "l", "f">>, <<"i", "n", "n">>, <<"p", "o", "t", "a", "t", "o">>, <<"i", "s">>, <<"S", "p", "o", "t">>}

\* the phrases of one to n words
RECURSIVE Phrases(_)
Phrases(n) ==
    IF n = 1 THEN WorldWords
    ELSE Phrases(n - 1) \cup {p \o << " " >> \o w : p \in Phrases(n - 1), w \in WorldWords}

\* the white space between "is" and the description
MaxGap == 2

\* "Spot is <description>" with one to MaxGap spaces before the description
EditPhrases ==
    {<<"S", "p", "o", "t", " ", "i", "s">> \o [i \in 1..gap |-> " "] \o description :
        gap \in 1..MaxGap,
        description \in {<<"e", "l", "f">>, <<"p", "o", "t", "a", "t", "o", " ", "e", "l", "f">>, <<"e", "l", "f", " ", "p", "o", "t", "a", "t", "o">>, <<"p", "o", "t", "a", "t", "o", " ", "n", "p", "c", " ", "p", "o", "t", "a", "t", "o">>}}

\* a repository that is empty, or holds the character Spot, and a phrase
\* to parse
InitWorld ==
    /\ cache \in {EmptyMap, map_insert(EmptyMap, 1, set_uuid(Thing("Npc", FieldNew(<<"S", "p", "o", "t">>)), 1))}
    /\ recent = <<>>
    /\ ring = RingNew
    /\ time = InitialTime
    /\ data_store_enabled = TRUE
    /\ store = cache
    /\ storeKV = None
    /\ calls = <<>>
    /\ command_aliases = {}
    /\ fields = EmptyMap
    /\ last \in {[op |-> "input", input |-> p] : p \in Phrases(MaxWords) \cup EditPhrases}
    /\ pushes = 0
    /\ budget = [push |-> 0, ops |-> 0, fill |-> 0]

ParseInput(input) ==
    /\ last = [op |-> "input", input |-> input]
    /\ last' = [op |-> "parse_input", input |-> input,
                parsed |-> world_parse_input(input, cache, recent, ring)]
    /\ UNCHANGED <<cache, recent, ring, time, data_store_enabled, store, storeKV, calls,
                   command_aliases, fields, pushes, budget>>

NextWorld == \E input \in {last.input} : ParseInput(input)

SpecWorld == InitWorld /\ [][NextWorld]_vars

\* the Create candidates among fuzzy matches
Creates(fuzzy) == SelectSeq(fuzzy, LAMBDA m : m.variant = "Create")

\* a phrase that parses as a thing description with no unknown words
Understood(P) == is_some(parse_thing(P)) /\ unwrap(parse_thing(P)).unknown_words = <<>>

\* a phrase that does not parse as a thing, with "create " before it or
\* not, and says of nothing what it is
Unparseable(P) ==
    /\ parse_thing(P) = None
    /\ \A rest \in {strip_prefix(P, <<"c", "r", "e", "a", "t", "e", " ">>)} :
          rest = None \/ parse_thing(unwrap(rest)) = None
    /\ \A k \in 2..Len(quoted_words(P)) : quoted_words(P)[k].str # <<"i", "s">>

\* C14: for every phrase P that parses as a thing description with no
\* unknown words, parse_input(P) has no exact match and exactly one Create
\* among its fuzzy matches, the Create of that thing, and
\* parse_input("create " + P) has that Create as its exact match and no fuzzy
\* match at all; an unparseable phrase has neither.
C14_CreateExactOnlyWithPrefix ==
    [][last'.op = "parse_input" =>
        /\ Understood(last'.input)
              => /\ last'.parsed.exact = None
                 /\ Creates(last'.parsed.fuzzy) = <<Create(unwrap(parse_thing(last'.input)))>>
        /\ \A P \in {strip_prefix(last'.input, <<"c", "r", "e", "a", "t", "e", " ">>)} :
              (is_some(P) /\ Understood(unwrap(P)))
                  => last'.parsed = [exact |-> Some(Create(unwrap(parse_thing(unwrap(P))))),
                                     fuzzy |-> <<>>]
        /\ Unparseable(last'.input) => last'.parsed = [exact |-> None, fuzzy |-> <<>>]]_vars

\* "create npc elf" has been parsed: the exact match is the creation of an
\* elf, there is no fuzzy match, and "potato" parsed to nothing
C14_Witness ==
    /\ last.op = "parse_input"
    /\ last.input = <<"c", "r", "e", "a", "t", "e", " ", "n", "p", "c", " ", "e", "l", "f">>
    /\ is_some(last.parsed.exact)
    /\ unwrap(last.parsed.exact).variant = "Create"
    /\ unwrap(last.parsed.exact).parsed.thing = [kind |-> "Npc", traits |-> {<<"e", "l", "f">>}]
    /\ unwrap(last.parsed.exact).parsed.unknown_words = <<>>
    /\ last.parsed.fuzzy = <<>>
    /\ world_parse_input(<<"p", "o", "t", "a", "t", "o">>, cache, recent, ring) = [exact |-> None, fuzzy |-> <<>>]
    /\ world_parse_input(<<"e", "l", "f">>, cache, recent, ring).exact = None
    /\ Len(world_parse_input(<<"e", "l", "f">>, cache, recent, ring).fuzzy) = 1

(***************************************************************************)
(* Repository claims: delete and load.                                     *)
(***************************************************************************)
\* C15: delete_thing_by_name of a name that no cache entry matches and an
\* entity of recent does removes the first such entity from recent, the
\* others keeping their order, returns Ok with the deleted-from-recent
\* message naming it, calls the data store not at all and leaves the cache
\* and the store as they were.
C15_DeleteFromRecentOnly ==
    [][(/\ last'.op = "delete_thing_by_name"
        /\ cache_matches(cache, to_lowercase(last'.name)) = {}
        /\ find_recent(recent, to_lowercase(last'.name)) # 0)
       => \E index \in {find_recent(recent, to_lowercase(last'.name))} :
              /\ last'.result = Ok("deleted from recent entries", Display(recent[index].name))
              /\ recent' = SubSeq(recent, 1, index - 1) \o SubSeq(recent, index + 1, Len(recent))
              /\ calls' = <<>>
              /\ cache' = cache
              /\ store' = store]_vars

\* "foo" has been deleted while Foo was in recent, before Bar, and in no
\* cache entry: Bar alone is left
C15_Witness ==
    /\ last.op = "delete_thing_by_name"
    /\ last.name = <<"f", "o", "o">>
    /\ last.result = Ok("deleted from recent entries", <<"F", "o", "o">>)
    /\ Len(recent) = 1
    /\ Display(recent[1].name) = <<"B", "a", "r">>
    /\ cache = EmptyMap
    /\ calls = <<>>

\* C16: delete_thing_by_name of a name that matches, case ignored, neither
\* a cache entry nor an entity of recent returns Err with the
\* no-entity-named message carrying the name as it was given, calls the data
\* store not at all and leaves cache, recent and the store as they were.
C16_DeleteUnknownName ==
    [][(/\ last'.op = "delete_thing_by_name"
        /\ \A k \in DOMAIN cache : ~name_matches(cache[k], to_lowercase(last'.name))
        /\ \A i \in 1..Len(recent) : ~name_matches(recent[i], to_lowercase(last'.name)))
       => /\ last'.result = Err("There is no entity named", last'.name)
          /\ calls' = <<>>
          /\ UNCHANGED <<cache, recent, store>>]_vars

\* "Baz" has been asked to be deleted while Foo was cached and Bar in recent
C16_Witness ==
    /\ last.op = "delete_thing_by_name"
    /\ last.name = <<"B", "a", "z">>
    /\ last.result = Err("There is no entity named", <<"B", "a", "z">>)
    /\ cache # EmptyMap
    /\ recent # <<>>

\* C17: delete_thing_by_name of a name that a cache entry matches, case
\* ignored, asks the data store to delete that entry's uuid and removes the
\* entry from the cache, returns Ok naming the entity when one of the two
\* succeeded and Err only when both failed, and leaves recent as it was, an
\* entity of the same name in it included.
C17_DeleteFromCache ==
    [][(/\ last'.op = "delete_thing_by_name"
        /\ cache_matches(cache, to_lowercase(last'.name)) # {})
       => /\ is_some(last'.found)
          /\ unwrap(last'.found) \in cache_matches(cache, to_lowercase(last'.name))
          /\ calls' = <<"delete_thing_by_uuid">>
          /\ DOMAIN cache' = DOMAIN cache \ {unwrap(last'.found)}
          /\ \A k \in DOMAIN cache' : cache'[k] = cache[k]
          /\ store' = IF last'.store_ok
                      THEN [k \in DOMAIN store \ {unwrap(last'.found)} |-> store[k]]
                      ELSE store
          /\ last'.result.ok <=> (last'.store_ok \/ unwrap(last'.found) \in DOMAIN cache)
          /\ last'.result.arg = Display(cache[unwrap(last'.found)].name)
          /\ recent' = recent]_vars

\* "foo" has been deleted from the cache, the data store refusing, while
\* another Foo was in recent: the result is Ok, the store keeps its entry and
\* the Foo of recent is still there
C17_Witness ==
    /\ last.op = "delete_thing_by_name"
    /\ last.name = <<"f", "o", "o">>
    /\ ~last.store_ok
    /\ last.result = Ok("was successfully deleted", <<"F", "o", "o">>)
    /\ cache = EmptyMap
    /\ store # EmptyMap
    /\ Len(recent) = 1
    /\ Display(recent[1].name) = <<"F", "o", "o">>

(***************************************************************************)
(* Loading by name, against a buffer of recent that has been pushed to and *)
(* taken from often enough to pass the end of its ring.                    *)
(***************************************************************************)
MaxLoadPush == 5    \* push_recent calls before and between the loads

\* Repository::load_thing_by_name; the order of cache.values() being
\* arbitrary, any of the cache entries that match may be the one found
LoadThingByName(name) ==
    /\ \E found \in IF load_thing_by_name(cache, recent, ring, name) = {} THEN {None}
                    ELSE {Some(t) : t \in load_thing_by_name(cache, recent, ring, name)} :
           last' = [op |-> "load_thing_by_name", name |-> name, found |-> found]
    /\ calls' = <<>>
    /\ UNCHANGED <<cache, recent, ring, time, data_store_enabled, store, storeKV,
                   command_aliases, fields, pushes, budget>>

InitLoad ==
    /\ RepoInit
    /\ command_aliases = {}
    /\ fields = EmptyMap
    /\ last = [op |-> "new"]
    /\ pushes = 0
    /\ budget = [push |-> MaxLoadPush, ops |-> MaxOps, fill |-> 0]

NextLoad ==
    \/ \E name \in PushNames : PushRecent(name)
    \/ \E name \in QueryNames, store_ok \in BOOLEAN :
           SaveThingByName(name, store_ok, new_v4)
    \/ \E name \in QueryNames, found \in {None} \cup {Some(k) : k \in Uuids},
          store_ok \in BOOLEAN :
           DeleteThingByName(name, found, store_ok)
    \/ \E name \in QueryNames \cup PushNames : LoadThingByName(name)

SpecLoad == InitLoad /\ [][NextLoad]_vars

\* the entities of recent a name matches, case ignored
matching_recent(name) ==
    {recent[i] : i \in {j \in 1..Len(recent) : name_matches(recent[j], to_lowercase(name))}}

\* the cache entries a name matches, case ignored
matching_cache(name) == {cache[k] : k \in cache_matches(cache, to_lowercase(name))}

\* C18: load_thing_by_name(name) returns an entity whose name is name, case
\* ignored, whenever the cache or recent holds one, an entity of the cache
\* when both do, and nothing only when neither does; and it leaves the
\* repository as it was.
C18_LoadFindsCacheThenRecent ==
    [][last'.op = "load_thing_by_name" =>
        /\ (matching_cache(last'.name) \cup matching_recent(last'.name) # {})
              => /\ is_some(last'.found)
                 /\ name_matches(unwrap(last'.found), to_lowercase(last'.name))
        /\ matching_cache(last'.name) # {}
              => /\ is_some(last'.found)
                 /\ unwrap(last'.found) \in matching_cache(last'.name)
        /\ last'.found = None
              => matching_cache(last'.name) \cup matching_recent(last'.name) = {}
        /\ UNCHANGED <<cache, recent, ring, time, data_store_enabled, store, storeKV>>]_vars

\* load_thing_by_name has returned nothing for a name that no cache entry
\* matches and an entity of recent does: the entity lies past the end of the
\* ring, in the second slice of the buffer
C18_LoadMissesWrappedRecent ==
    /\ last.op = "load_thing_by_name"
    /\ last.found = None
    /\ matching_cache(last.name) = {}
    /\ matching_recent(last.name) # {}
    /\ ring.head + Len(recent) > ring.cap

(***************************************************************************)
(* Repository claims: invariants over init, push_recent, save and delete.  *)
(***************************************************************************)
\* C19: after any sequence of init, push_recent, save_thing_by_name, its
\* store succeeding or failing, and delete_thing_by_name, no entity is in
\* the cache and in recent at the same time.
C19_CacheAndRecentDisjoint ==
    \A k \in DOMAIN cache : cache[k].tag \notin tags_of(recent)

\* one entity has been saved, the save of another has failed: the first is
\* in the cache, the second back in recent
C19_Witness ==
    /\ last.op = "save_thing_by_name"
    /\ ~last.result.ok
    /\ last.result.kind = "Couldn't save"
    /\ Cardinality(DOMAIN cache) = 1
    /\ Len(recent) = 1
    /\ \A k \in DOMAIN cache : cache[k].tag # recent[1].tag

\* C20: only entities without a uuid being pushed, every entity of recent
\* has no uuid after any sequence of repository operations, the saves whose
\* store fails included.
C20_RecentHasNoUuid ==
    \A i \in 1..Len(recent) : recent[i].uuid = None

\* after pushes of entities without a uuid and a save whose store failed,
\* recent holds an entity with a uuid while neither the cache nor the store
\* knows that uuid
C20_RecentHoldsUuid ==
    /\ \E i \in 1..Len(recent) :
          /\ is_some(recent[i].uuid)
          /\ unwrap(recent[i].uuid) \notin DOMAIN cache \cup DOMAIN store
    /\ last.op \in {"push_recent", "save_thing_by_name"}
(***************************************************************************)
(* A repository built around a data store that an earlier session has      *)
(* written: init and the clock.                                            *)
(***************************************************************************)
MaxStorePush == 1   \* push_recent calls
MaxStoreOps == 3    \* init, set_time, save_thing_by_name and delete_thing_by_name calls

\* what get_all_the_things may return: nothing, a saved entity, an entity
\* that carries no uuid, or both
StoredThings ==
    LET saved == set_uuid(Thing(-1, FieldNew(<<"F", "o", "o">>)), 1)
        bare == Thing(-2, FieldNew(<<"B", "a", "r">>))
    IN  {EmptyMap, [k \in {1} |-> saved], [k \in {2} |-> bare],
         [k \in {1, 2} |-> IF k = 1 THEN saved ELSE bare]}

\* what get_value("time") may hold: nothing, a time, or a text that is none
StoredValues == {None, Some(<<"2", ":", "9", ":", "3", "0", ":", "0">>), Some(<<"p", "o", "t", "a", "t", "o">>)}

SetTimes == {InitialTime, [days |-> 2, hours |-> 9, minutes |-> 30, seconds |-> 0]}

\* Repository::get_time
get_time == time

\* Repository::set_time
SetTime(t, store_ok) ==
    /\ budget.ops > 0
    /\ LET r == set_time(storeKV, t, store_ok)
       IN  /\ storeKV' = r.storeKV
           /\ time' = r.time
           /\ calls' = r.calls
    /\ last' = [op |-> "set_time", t |-> t, store_ok |-> store_ok]
    /\ budget' = [budget EXCEPT !.ops = @ - 1]
    /\ UNCHANGED <<cache, recent, ring, data_store_enabled, store, command_aliases,
                   fields, pushes>>

InitStore ==
    /\ cache = EmptyMap
    /\ recent = <<>>
    /\ ring = RingNew
    /\ time = InitialTime
    /\ data_store_enabled = FALSE
    /\ store \in StoredThings
    /\ storeKV \in StoredValues
    /\ calls = <<>>
    /\ command_aliases = {}
    /\ fields = EmptyMap
    /\ last = [op |-> "new"]
    /\ pushes = 0
    /\ budget = [push |-> MaxStorePush, ops |-> MaxStoreOps, fill |-> 0]

NextStore ==
    \/ \E things_ok, value_ok, store_ok \in BOOLEAN :
           RepositoryInit(things_ok, value_ok, store_ok)
    \/ \E t \in SetTimes, store_ok \in BOOLEAN : SetTime(t, store_ok)
    \/ \E name \in PushNames : PushRecent(name)
    \/ \E name \in QueryNames, store_ok \in BOOLEAN :
           SaveThingByName(name, store_ok, new_v4)
    \/ \E name \in QueryNames, found \in {None} \cup {Some(k) : k \in Uuids},
          store_ok \in BOOLEAN :
           DeleteThingByName(name, found, store_ok)

SpecStore == InitStore /\ [][NextStore]_vars

\* the entities the data store returns
loaded == {store[k] : k \in DOMAIN store}

C21_WitnessFailed ==
    /\ last.op = "init"
    /\ ~last.things_ok
    /\ ~data_store_enabled
    /\ cache # EmptyMap
\* the time init restores from the data store, if it restores one
restored_time(kv, value_ok) ==
    IF value_ok /\ is_some(kv) THEN parse_time(unwrap(kv)) ELSE None

\* C22: set_time(t) calls the data store once, to write t under "time", and
\* sets the clock to t whether the write succeeded or failed, leaving the
\* cache and recent as they were; get_time is day 1, 08:00:00 after
\* construction and changes only to the time of a set_time or to the time an
\* init restores.
C22_SetTimeAlwaysSetsTheClock ==
    /\ [](last.op = "new" => get_time = InitialTime)
    /\ [][last'.op = "set_time"
            => /\ get_time' = last'.t
               /\ calls' = <<"set_value">>
               /\ storeKV' = IF last'.store_ok THEN Some(display_short(last'.t)) ELSE storeKV
               /\ cache' = cache
               /\ recent' = recent]_vars
    /\ [][last'.op = "init"
            => get_time' = IF is_some(restored_time(storeKV, last'.value_ok))
                           THEN unwrap(restored_time(storeKV, last'.value_ok))
                           ELSE get_time]_vars
    /\ [][last'.op \notin {"set_time", "init"} => get_time' = get_time]_vars

\* the clock has been set to day 2, 09:30:00 while the write to the data
\* store failed
C22_Witness ==
    /\ last.op = "set_time"
    /\ ~last.store_ok
    /\ get_time = [days |-> 2, hours |-> 9, minutes |-> 30, seconds |-> 0]
    /\ storeKV # Some(display_short(get_time))
    /\ recent # <<>>
(***************************************************************************)
(* Shortcuts: a registry of literal aliases, as runnable_test builds one,  *)
(* and inputs that are parsed, completed and run against it.               *)
(***************************************************************************)
MaxShortcutOps == 2     \* parse_input, autocomplete and run calls

\* an autocomplete that offers every term the input occurs in
autocomplete_containing(input, aliases) ==
    {<<a.term, a.summary>> :
        a \in {b \in aliases :
                  \E i \in 0..Len(b.term) : starts_with(SubSeq(b.term, i + 1, Len(b.term)), input)}}

\* CommandAlias::autocomplete: the (term, summary) pairs it collects
alias_autocomplete(input, aliases) ==
    {<<a.term, a.summary>> : a \in {b \in aliases : b.kind = "Literal" /\ starts_with(b.term, input)}}

\* the orders in which the iterator of a HashSet may yield a set's members
Orders(S) ==
    {s \in [1..Cardinality(S) -> S] : \A i, j \in 1..Cardinality(S) : s[i] = s[j] => i = j}

ShortcutAliases ==
    {literal(<<"n", "p", "c">>, <<"n", "o", "w">>, Command("Time", "Now", <<"n", "o", "w">>)),
     literal(<<"n", "p">>, <<"i", "n", "n">>, Command("World", "Create", <<"i", "n", "n">>)),
     literal(<<"s", "a", "v", "e">>, <<"s", "a", "v", "e", " ", "O", "a", "k">>, Command("Storage", "Save", <<"O", "a", "k">>)),
     literal(<<"N", "p", "c">>, <<"l", "o", "a", "d", " ", "O", "a", "k">>, Command("Storage", "Load", <<"O", "a", "k">>))}

ShortcutInputs == {<<"n", "p", "c">>, <<"n", "p">>, <<"n">>, <<"p", "c">>, <<"N", "p", "c">>, <<"s", "a", "v", "e">>, <<"i", "n", "n">>, <<"s", "a", "v", "e", " ", "O", "a", "k">>, <<"p", "o", "t", "a", "t", "o">>}

ShortcutEnvs == {[DefaultEnv EXCEPT !.name = <<"O", "a", "k">>, !.store_ok = ok] : ok \in BOOLEAN}

\* CommandAlias::parse_input
ShortcutParse(input) ==
    /\ budget.ops > 0
    /\ \E parsed \in {alias_parse_input(input, command_aliases)} :
           last' = [op |-> "alias_parse_input", input |-> input,
                    exact |-> parsed.exact, fuzzy |-> parsed.fuzzy]
    /\ budget' = [budget EXCEPT !.ops = @ - 1]
    /\ UNCHANGED <<cache, recent, ring, time, data_store_enabled, store, storeKV, calls,
                   command_aliases, fields, pushes>>

\* CommandAlias::autocomplete
ShortcutAutocomplete(input) ==
    /\ budget.ops > 0
    /\ \E suggestions \in Orders(alias_autocomplete(input, command_aliases)) :
           last' = [op |-> "alias_autocomplete", input |-> input,
                    suggestions |-> suggestions]
    /\ budget' = [budget EXCEPT !.ops = @ - 1]
    /\ UNCHANGED <<cache, recent, ring, time, data_store_enabled, store, storeKV, calls,
                   command_aliases, fields, pushes>>

\* the input is parsed and what it parses to is run
ShortcutRun(input, env) ==
    /\ budget.ops > 0
    /\ \E parsed \in {parse_input_irrefutable(input, AppMeta)} :
       \E ran \in {run_parsed(parsed, input, AppMeta, env)} :
           /\ cache' = ran.app.cache
           /\ recent' = ran.app.recent
           /\ ring' = ran.app.ring
           /\ store' = ran.app.store
           /\ storeKV' = ran.app.storeKV
           /\ time' = ran.app.time
           /\ calls' = ran.app.calls
           /\ command_aliases' = ran.app.aliases
           /\ pushes' = ran.app.pushes
           /\ last' = [op |-> "run", input |-> input, env |-> env,
                       via_alias |-> parsed.via_alias, executed |-> ran.executed,
                       result |-> ran.result]
    /\ budget' = [budget EXCEPT !.ops = @ - 1]
    /\ UNCHANGED <<data_store_enabled, fields>>

(***************************************************************************)
(* Autocomplete: the suggestions of the generator words (WorldCommand in   *)
(* world/command.rs), and the list the application hands to its caller,    *)
(* merged from the suggestions of the aliases and of the generator words.  *)
(***************************************************************************)
\* the characters of the texts, in the order of their code points
CodePoints ==
    <<" ", "-", "A", "B", "C", "D", "E", "F", "G", "H", "I", "J", "K", "L", "M", "N", "O",
      "P", "Q", "R", "S", "T", "U", "V", "W", "X", "Y", "Z", "a", "b", "c", "d", "e", "f",
      "g", "h", "i", "j", "k", "l", "m", "n", "o", "p", "q", "r", "s", "t", "u", "v", "w",
      "x", "y", "z">>

code_points ==
    [c \in {CodePoints[i] : i \in 1..Len(CodePoints)} |->
        CHOOSE i \in 1..Len(CodePoints) : CodePoints[i] = c]

code_point(c) == code_points[c]

\* String's Ord: a < b, byte by byte, a proper prefix first
text_lt(a, b) ==
    \E i \in 1..Len(b) :
        /\ i <= Len(a) + 1
        /\ \A j \in 1..(i - 1) : a[j] = b[j]
        /\ (i = Len(a) + 1 \/ code_point(a[i]) < code_point(b[i]))

\* Vec::sort of texts: stable, ascending
sort(v) ==
    LET rank == [i \in 1..Len(v) |->
                    Cardinality({j \in 1..Len(v) :
                                    \/ text_lt(v[j], v[i])
                                    \/ (v[j] = v[i] /\ j <= i)})]
    IN  [p \in 1..Len(v) |-> v[CHOOSE i \in 1..Len(v) : rank[i] = p]]

\* a truncate that keeps the whole list
keep_all(v, n) == v

\* Vec::truncate
truncate(v, n) == IF Len(v) > n THEN SubSeq(v, 1, n) ELSE v

\* ["npc", "building"], Species::get_words(), BuildingType::get_words()
get_words ==
    <<<<"n", "p", "c">>, <<"b", "u", "i", "l", "d", "i", "n", "g">>,
      <<"d", "r", "a", "g", "o", "n", "b", "o", "r", "n">>, <<"d", "w", "a", "r", "f">>, <<"e", "l", "f">>, <<"g", "n", "o", "m", "e">>, <<"h", "a", "l", "f", "-", "e", "l", "f">>, <<"h", "a", "l", "f", "-", "o", "r", "c">>, <<"h", "a", "l", "f", "l", "i", "n", "g">>, <<"h", "u", "m", "a", "n">>,
      <<"t", "i", "e", "f", "l", "i", "n", "g">>,
      <<"i", "n", "n">>, <<"r", "e", "s", "i", "d", "e", "n", "c", "e">>, <<"s", "h", "o", "p">>, <<"t", "e", "m", "p", "l", "e">>, <<"w", "a", "r", "e", "h", "o", "u", "s", "e">>>>

\* autocomplete_phrase: the words of the vocabulary that have the input as
\* a literal prefix, in the order of the vocabulary
autocomplete_phrase(input, vocabulary) ==
    SelectSeq(vocabulary, LAMBDA word : starts_with(word, input))

\* WorldCommand::parse_input of world/command.rs: a species, a location
\* type or "npc"
word_parse_input(input) ==
    IF \E i \in 3..11 : get_words[i] = input
    THEN <<[variant |-> "Npc", species |-> Some(input)]>>
    ELSE IF input = <<"b", "u", "i", "l", "d", "i", "n", "g">> \/ \E i \in 12..16 : get_words[i] = input
    THEN <<[variant |-> "Location", location_type |-> input]>>
    ELSE IF <<"n", "p", "c">> = input
    THEN <<[variant |-> "Npc", species |-> None]>>
    ELSE <<>>

\* WorldCommand::autocomplete of world/command.rs, each suggestion paired
\* with its commands
word_autocomplete(input) ==
    LET suggestions == truncate(sort(autocomplete_phrase(input, get_words)), 10)
        RECURSIVE flat_map(_)
        flat_map(i) ==
            IF i > Len(suggestions) THEN <<>>
            ELSE [c \in 1..Len(word_parse_input(suggestions[i])) |->
                     <<suggestions[i], word_parse_input(suggestions[i])[c]>>]
                 \o flat_map(i + 1)
    IN  flat_map(1)

\* Runnable::summarize of WorldCommand
summarize(command) == <<"g", "e", "n", "e", "r", "a", "t", "e">>

\* of the entries of a text only the first stays
dedup(v) ==
    LET first == SelectSeq([i \in 1..Len(v) |->
                               <<v[i], \A j \in 1..(i - 1) : v[j][1] # v[i][1]>>],
                           LAMBDA e : e[2])
    IN  [i \in 1..Len(first) |-> first[i][1]]

\* the entries in ascending order of text
sort_by_text(v) ==
    LET rank == [i \in 1..Len(v) |->
                    Cardinality({j \in 1..Len(v) :
                                    \/ text_lt(v[j][1], v[i][1])
                                    \/ (v[j][1] = v[i][1] /\ j <= i)})]
    IN  [p \in 1..Len(v) |-> v[CHOOSE i \in 1..Len(v) : rank[i] = p]]

\* the list the application hands to its caller: the suggestions of the
\* families, of a text only the first, sorted by text, at most ten
command_autocomplete(alias_suggestions, word_suggestions) ==
    truncate(sort_by_text(dedup(
        alias_suggestions
            \o [i \in 1..Len(word_suggestions) |->
                   <<word_suggestions[i][1], summarize(word_suggestions[i][2])>>])), 10)

AutocompleteInputs ==
    {<<>>, <<"n">>, <<"n", "p">>, <<"n", "p", "c">>, <<"N">>, <<"h">>, <<"h", "a", "l", "f", "-">>, <<"h", "a", "l", "f", "l", "i", "n", "g">>, <<"s">>, <<"p", "o", "t", "a", "t", "o">>}

Autocomplete(input) ==
    /\ budget.ops > 0
    /\ \E alias_suggestions \in Orders(alias_autocomplete(input, command_aliases)),
          word_suggestions \in {word_autocomplete(input)} :
           last' = [op |-> "autocomplete", input |-> input,
                    word_suggestions |-> word_suggestions,
                    suggestions |-> command_autocomplete(alias_suggestions,
                                                         word_suggestions)]
    /\ budget' = [budget EXCEPT !.ops = @ - 1]
    /\ UNCHANGED <<cache, recent, ring, time, data_store_enabled, store, storeKV, calls,
                   command_aliases, fields, pushes>>

InitShortcut ==
    /\ RepoInit
    /\ command_aliases \in SUBSET ShortcutAliases
    /\ fields = EmptyMap
    /\ last = [op |-> "new"]
    /\ pushes = 0
    /\ budget = [push |-> 0, ops |-> MaxShortcutOps, fill |-> 0]

NextShortcut ==
    \/ \E input \in ShortcutInputs : ShortcutParse(input)
    \/ \E input \in ShortcutInputs : ShortcutAutocomplete(input)
    \/ \E input \in ShortcutInputs, env \in ShortcutEnvs : ShortcutRun(input, env)

SpecShortcut == InitShortcut /\ [][NextShortcut]_vars

\* autocomplete against the registries and the repositories that earlier
\* commands may have left
InitSuggest ==
    /\ RepoInit
    /\ command_aliases \in SUBSET ShortcutAliases
    /\ fields = EmptyMap
    /\ last = [op |-> "new"]
    /\ pushes = 0
    /\ budget = [push |-> MaxStorePush, ops |-> MaxShortcutOps, fill |-> 0]

NextSuggest ==
    \/ \E name \in PushNames : PushRecent(name)
    \/ \E input \in AutocompleteInputs : Autocomplete(input)

SpecSuggest == InitSuggest /\ [][NextSuggest]_vars

\* the registered literal aliases whose term is the input
named(input) == {a \in command_aliases : a.kind = "Literal" /\ a.term = input}

\* C23: an input that is the term of a registered alias and also a built-in
\* command ("npc") is resolved to the alias: what runs is the command the
\* alias wraps, not the built-in one.
C23_AliasShadowsBuiltIn ==
    [][(last'.op = "run" /\ named(last'.input) # {})
          => /\ last'.via_alias
             /\ \E a \in named(last'.input) : last'.executed = <<a.command>>]_vars

\* "npc" was typed while an alias npc stood for the time command: the time
\* was shown and no character was generated
C23_Witness ==
    /\ last.op = "run"
    /\ last.input = <<"n", "p", "c">>
    /\ last.via_alias
    /\ last.executed = <<Command("Time", "Now", <<"n", "o", "w">>)>>
    /\ last.result.ok
    /\ recent = <<>>
\* C24: running a literal alias with an input returns exactly the result,
\* Ok or Err with the same text, that the command it wraps returns when run
\* with that input on the same state.
C24_AliasReturnsWrappedResult ==
    [][(last'.op = "run" /\ last'.via_alias)
          => \E a \in named(last'.input) :
                 last'.result = command_run(a.command, last'.input, AppMeta, last'.env).result]_vars

\* the alias save has run "save Oak" while the data store refused it: the
\* alias returned the command's error
C24_Witness ==
    /\ last.op = "run"
    /\ last.via_alias
    /\ last.input = <<"s", "a", "v", "e">>
    /\ last.executed = <<Command("Storage", "Save", <<"O", "a", "k">>)>>
    /\ ~last.result.ok
    /\ Len(recent) = 1
    /\ calls = <<"save_thing">>
\* C25: CommandAlias::parse_input returns an exact match exactly when a
\* registered literal alias has the input as its term, the whole string and
\* case-sensitively; the match is that alias; there are never fuzzy matches
\* and the registry is not changed.
C25_AliasParseIsExactTerm ==
    [][last'.op = "alias_parse_input"
          => /\ is_some(last'.exact) <=> named(last'.input) # {}
             /\ is_some(last'.exact) => unwrap(last'.exact) \in named(last'.input)
             /\ last'.fuzzy = <<>>
             /\ command_aliases' = command_aliases]_vars

\* "Npc" has been parsed while the aliases npc and Npc were registered: the
\* alias Npc is the match
C25_Witness ==
    /\ last.op = "alias_parse_input"
    /\ last.input = <<"N", "p", "c">>
    /\ {a.term : a \in command_aliases} = {<<"n", "p", "c">>, <<"N", "p", "c">>}
    /\ is_some(last.exact)
    /\ unwrap(last.exact).term = <<"N", "p", "c">>
    /\ unwrap(last.exact).command = Command("Storage", "Load", <<"O", "a", "k">>)

\* the (term, summary) pairs of the registered aliases whose term begins
\* with the input
completions(input) ==
    {<<a.term, a.summary>> :
        a \in {b \in command_aliases :
                  /\ Len(input) <= Len(b.term)
                  /\ \A i \in 1..Len(input) : b.term[i] = input[i]}}

\* C26: CommandAlias::autocomplete returns exactly the (term, summary) pairs
\* of the registered aliases whose term has the input as a literal,
\* case-sensitive prefix, each once; a term that holds the input elsewhere is
\* not offered.
C26_AliasAutocompleteIsPrefix ==
    [][last'.op = "alias_autocomplete"
          => /\ Range(last'.suggestions) = completions(last'.input)
             /\ Len(last'.suggestions) = Cardinality(completions(last'.input))
             /\ command_aliases' = command_aliases]_vars

\* "np" has been completed while npc, np and Npc were registered: npc and np
\* are offered, Npc is not
C26_Witness ==
    /\ last.op = "alias_autocomplete"
    /\ last.input = <<"n", "p">>
    /\ {a.term : a \in command_aliases} = {<<"n", "p", "c">>, <<"n", "p">>, <<"N", "p", "c">>}
    /\ Range(last.suggestions) = {<<<<"n", "p", "c">>, <<"n", "o", "w">>>>, <<<<"n", "p">>, <<"i", "n", "n">>>>}
\* a list of (text, ...) pairs has at most 10 entries, no two with the same
\* text, in ascending order of text
short_distinct_ascending(list) ==
    /\ Len(list) <= 10
    /\ \A i, j \in 1..Len(list) : i # j => list[i][1] # list[j][1]
    /\ \A i, j \in 1..Len(list) : i < j => text_lt(list[i][1], list[j][1])

MaxNoticeLen == 4   \* characters of an annotated input

EAcute == "e'"      \* the character e with acute accent: two bytes in UTF-8
Nbsp == "_"         \* the no-break space U+00A0
Caret == "^"
NoticeHead == "! initiative.sh doesn't know some of those words, but it did its best. > "
NoticeBreak == "\\ "
NoticeTail == "\\ Want to help improve its vocabulary?"

\* char::len_utf8
len_utf8(c) == IF c = EAcute THEN 2 ELSE 1

\* str::len: the bytes of the first n characters
RECURSIVE byte_len(_, _)
byte_len(s, n) == IF n = 0 THEN 0 ELSE byte_len(s, n - 1) + len_utf8(s[n])

\* the byte offset of the k-th character, as char_indices yields it
offset(s, k) == byte_len(s, k - 1)

\* &input[a..b]
slice(s, a, b) == SelectSeq([k \in 1..Len(s) |-> [c |-> s[k], at |-> offset(s, k)]],
                            LAMBDA x : a <= x.at /\ x.at < b)

\* the characters of a slice
chars(xs) == [k \in 1..Len(xs) |-> xs[k].c]

\* the first loop: the input with every range between markers
RECURSIVE echo(_, _, _)
echo(input, words, pos) ==
    IF words = <<>> THEN chars(slice(input, pos, byte_len(input, Len(input))))
    ELSE chars(slice(input, pos, Head(words)[1])) \o <<"*", "*">>
             \o chars(slice(input, Head(words)[1], Head(words)[2])) \o <<"*", "*">>
             \o echo(input, Tail(words), Head(words)[2])

\* a second loop that draws a caret under every character once the first
\* range has begun
carets_to_the_end(input, k, unknown_word, words) ==
    IF unknown_word = None THEN <<>>
    ELSE [j \in 1..Len(input) |->
             IF offset(input, j) >= unwrap(unknown_word)[1] THEN Caret ELSE Nbsp]

\* the second loop, from the k-th character on: unknown_word is the range
\* the loop is at, words the ranges not yet drawn from the iterator
RECURSIVE carets(_, _, _, _)
carets(input, k, unknown_word, words) ==
    IF k > Len(input) THEN <<>>
    ELSE LET i == offset(input, k)
             ended == is_some(unknown_word) /\ i >= unwrap(unknown_word)[2]
             word == IF ~ended THEN unknown_word
                     ELSE IF words = <<>> THEN None ELSE Some(Head(words))
             rest == IF ended /\ words # <<>> THEN Tail(words) ELSE words
         IN  IF word = None THEN <<>>
             ELSE <<IF i >= unwrap(word)[1] THEN Caret ELSE Nbsp>>
                      \o carets(input, k + 1, word, rest)

append_unknown_words_notice(out, input, unknown_words) ==
    IF unknown_words # <<>>
    THEN out \o <<NoticeHead>> \o echo(input, unknown_words, 0)
             \o <<NoticeBreak, Nbsp, Nbsp>>
             \o carets(input, 1, Some(Head(unknown_words)), Tail(unknown_words))
             \o <<NoticeTail>>
    ELSE out

\* the ranges of an input: non-empty, between character boundaries
Ranges(input) ==
    {<<offset(input, a), offset(input, b)>> : a \in 1..Len(input), b \in 2..(Len(input) + 1)}
        \cap {r \in (0..(2 * Len(input))) \X (0..(2 * Len(input))) : r[1] < r[2]}

MaxRanges == 3  \* unknown words of an annotated input

\* the lists of unknown words a parser may hand over: in order, not
\* overlapping
RECURSIVE RangeListsFrom(_, _, _)
RangeListsFrom(input, from, n) ==
    IF n = 0 THEN {<<>>}
    ELSE {<<>>} \cup UNION {{<<r>> \o ws : ws \in RangeListsFrom(input, r[2], n - 1)} :
                               r \in {q \in Ranges(input) : from <= q[1]}}

RangeLists(input) == RangeListsFrom(input, 0, MaxRanges)

NoticeInputs == SeqsUpTo({"a", " ", EAcute}, MaxNoticeLen)
NoticeOutputs == {<<>>, <<"#", " ", "a">>}

InitNotice ==
    /\ RepoInit
    /\ command_aliases = {}
    /\ fields = EmptyMap
    /\ pushes = 0
    /\ budget = [push |-> 0, ops |-> 0, fill |-> 0]
    /\ last \in UNION {{[op |-> "input", input |-> input, unknown_words |-> ws,
                         output |-> out] :
                           ws \in RangeLists(input), out \in NoticeOutputs} :
                       input \in NoticeInputs}

AppendNotice(out, input, unknown_words) ==
    /\ last = [op |-> "input", input |-> input, unknown_words |-> unknown_words,
               output |-> out]
    /\ last' = [op |-> "append_unknown_words_notice", input |-> input,
                unknown_words |-> unknown_words, output |-> out,
                result |-> append_unknown_words_notice(out, input, unknown_words)]
    /\ UNCHANGED <<cache, recent, ring, time, data_store_enabled, store, storeKV, calls,
                   command_aliases, fields, pushes, budget>>

NextNotice ==
    \E out \in {last.output}, input \in {last.input},
       unknown_words \in {last.unknown_words} :
        AppendNotice(out, input, unknown_words)

SpecNotice == InitNotice /\ [][NextNotice]_vars

\* the part of a text between the first a and the first b
between(text, a, b) ==
    SubSeq(text, (CHOOSE i \in 1..Len(text) : text[i] = a) + 1,
                 (CHOOSE i \in 1..Len(text) : text[i] = b) - 1)

\* the input from its k-th character on, with markers where a range begins
\* and where a range ends
RECURSIVE marked(_, _, _)
marked(input, words, k) ==
    IF k > Len(input) THEN <<>>
    ELSE (IF \E j \in 1..Len(words) : words[j][1] = offset(input, k)
          THEN <<"*", "*">> ELSE <<>>)
         \o <<input[k]>>
         \o (IF \E j \in 1..Len(words) : words[j][2] = offset(input, k + 1)
             THEN <<"*", "*">> ELSE <<>>)
         \o marked(input, words, k + 1)

\* a caret under every character inside a range, filler under every other
\* character before the end of the last range
underlined(input, words) ==
    [k \in 1..Cardinality({j \in 1..Len(input) : offset(input, j) < words[Len(words)][2]}) |->
        IF \E j \in 1..Len(words) :
               words[j][1] <= offset(input, k) /\ offset(input, k) < words[j][2]
        THEN Caret ELSE Nbsp]

\* C30: append_unknown_words_notice returns the output unchanged when there
\* are no unknown words; otherwise it appends to the output a notice whose
\* echo line is the input with exactly the unknown ranges between markers
\* (the input again once the markers are taken out) and whose caret line
\* has, after its indent, a caret under exactly the characters inside the
\* ranges and filler under every character before them or between them.
C30_NoticeMarksExactlyTheUnknownWords ==
    [][last'.op = "append_unknown_words_notice"
          => \E input \in {last'.input}, words \in {last'.unknown_words},
                result \in {last'.result} :
                 IF words = <<>> THEN result = last'.output
                 ELSE /\ SubSeq(result, 1, Len(last'.output) + 1)
                             = last'.output \o <<NoticeHead>>
                      /\ result[Len(result)] = NoticeTail
                      /\ between(result, NoticeHead, NoticeBreak) = marked(input, words, 1)
                      /\ SelectSeq(between(result, NoticeHead, NoticeBreak),
                                   LAMBDA c : c # "*") = input
                      /\ between(result, NoticeBreak, NoticeTail)
                             = <<Nbsp, Nbsp>> \o underlined(input, words)]_vars

\* two unknown words in an input with a two-byte character between them
C30_Witness ==
    /\ last.op = "append_unknown_words_notice"
    /\ last.input = <<"a", EAcute, " ", "a">>
    /\ last.unknown_words = <<<<0, 1>>, <<4, 5>>>>
    /\ last.output = <<"#", " ", "a">>
    /\ last.result = <<"#", " ", "a", NoticeHead, "*", "*", "a", "*", "*", EAcute, " ",
                       "*", "*", "a", "*", "*", NoticeBreak, Nbsp, Nbsp,
                       Caret, Nbsp, Nbsp, Caret, NoticeTail>>
(***************************************************************************)
(* WorldCommand::run, the Create arm (world/command/mod.rs).  The diff is  *)
(* an entity whose name the user has given (locked) or left to the         *)
(* generator (unlocked, empty); names[i] is the name the generator comes   *)
(* up with at the i-th attempt.                                            *)
(***************************************************************************)
MaxCreates == 2     \* Create runs

\* a loop of nine rounds
NineAttempts == 10 - 1

\* for _ in 0..10
CREATE_ATTEMPTS == 10

\* Thing::regenerate, as far as the name goes: the generated name replaces
\* a name that is not locked
regenerate(thing, tag, name) == [thing EXCEPT !.tag = tag, !.name = replace(@, name)]

\* Repository::modify of Change::Create and Change::CreateAndSave: a name
\* in use, case ignored, is refused; Create puts the entity into recent,
\* CreateAndSave gives it a uuid and saves it
modify(app, thing, and_save, store_ok, u) ==
    LET lowercase_name == to_lowercase(unwrap(value(thing.name)))
    IN  IF \/ cache_matches(app.cache, lowercase_name) # {}
           \/ find_recent(app.recent, lowercase_name) # 0
        THEN [ok |-> FALSE, error |-> "NameAlreadyExists", app |-> app]
        ELSE IF ~and_save
        THEN [ok |-> TRUE, error |-> "",
              app |-> [app EXCEPT !.recent = push_recent(@, thing),
                                  !.ring = ring_push_recent(@, Len(app.recent)),
                                  !.pushes = @ + 1]]
        ELSE IF store_ok
        THEN [ok |-> TRUE, error |-> "",
              app |-> [app EXCEPT !.cache = map_insert(@, u, set_uuid(thing, u)),
                                  !.store = map_insert(@, u, set_uuid(thing, u)),
                                  !.calls = @ \o <<"save_thing">>,
                                  !.pushes = @ + 1]]
        ELSE [ok |-> FALSE, error |-> "DataStoreFailed",
              app |-> [app EXCEPT !.calls = @ \o <<"save_thing">>]]

\* a loop that generates again whatever the name
always_continue(thing) == "continue"

\* what the loop does about a refused name: a name the user gave ends the
\* run, a generated name is generated again
on_name_already_exists(thing) == IF is_locked(thing.name) THEN "return" ELSE "continue"

\* the error of a name the user gave that is in use: it names the entity
\* that has the name, if load finds it
name_in_use(found) ==
    IF found # {}
    THEN <<"That name is already in use by ">>
             \o Display((CHOOSE other_thing \in found : TRUE).name) \o <<".">>
    ELSE <<"That name is already in use.">>

\* the aliases of a Create run
more_alias(command) ==
    literal(<<"m", "o", "r", "e">>, <<"c", "r", "e", "a", "t", "e", " ">> \o command.description,
            Command("World", "CreateMultiple", command.description))
\* a "save" alias that saves nothing in particular
save_alias_unnamed(name) == literal(<<"s", "a", "v", "e">>, <<"s", "a", "v", "e">>, Command("Storage", "Save", <<>>))

save_alias(name) == literal(<<"s", "a", "v", "e">>, <<"s", "a", "v", "e", " ">> \o name, Command("Storage", "Save", name))

\* the loop of the Create arm from its i-th round on, and what follows it
RECURSIVE create(_, _, _, _, _)
create(command, names, i, app, env) ==
    IF i > CREATE_ATTEMPTS
    THEN [result |-> [ok |-> FALSE,
                      text |-> <<"Couldn't create a unique ">> \o command.description
                                   \o <<" name.">>],
          app |-> app, attempts |-> i - 1]
    ELSE LET thing == regenerate(command.diff, app.pushes + 1, names[i])
             name == unwrap(value(thing.name))
             generated == is_unlocked(thing.name)
             and_save == app.data_store_enabled /\ is_locked(thing.name)
             temp_output ==
                 <<"#", " ">> \o name
                     \o (IF and_save
                         THEN <<"_Because you specified a name, it has been added to your journal._">>
                         ELSE IF app.data_store_enabled
                         THEN <<"_It has not yet been saved. Use ~save~ to save it. For more suggestions, type ~more~._">>
                         ELSE IF generated THEN <<"_For more suggestions, type ~more~._">>
                         ELSE <<>>)
             with_more == IF generated
                          THEN [app EXCEPT !.aliases = hash_insert(@, more_alias(command))]
                          ELSE app
             modified == modify(with_more, thing, and_save, env.store_ok, env.uuid)
         IN  IF modified.ok
             THEN [result |-> [ok |-> TRUE,
                               text |-> append_unknown_words_notice(
                                            temp_output, command.input,
                                            command.unknown_words)],
                   app |-> IF app.data_store_enabled /\ generated
                           THEN [modified.app EXCEPT
                                    !.aliases = hash_insert(@, save_alias(name))]
                           ELSE modified.app,
                   attempts |-> i]
             ELSE IF modified.error = "NameAlreadyExists"
             THEN IF on_name_already_exists(thing) = "return"
                  THEN [result |-> [ok |-> FALSE,
                                    text |-> name_in_use(load_thing_by_name(
                                                 modified.app.cache, modified.app.recent,
                                                 modified.app.ring, name))],
                        app |-> modified.app, attempts |-> i]
                  ELSE create(command, names, i + 1, modified.app, env)
             ELSE [result |-> [ok |-> FALSE, text |-> <<"An error occurred.">>],
                   app |-> modified.app, attempts |-> i]

\* the Create commands that are run: a character, a character with a word
\* the parser does not know, a character whose name the user gives
CreateCommands ==
    {[input |-> <<"n", "p", "c">>, description |-> <<"c", "h", "a", "r", "a", "c", "t", "e", "r">>, unknown_words |-> <<>>,
      diff |-> Thing(0, FieldDefault)],
     [input |-> <<"o", "d", "d", " ", "n", "p", "c">>, description |-> <<"c", "h", "a", "r", "a", "c", "t", "e", "r">>, unknown_words |-> <<<<0, 3>>>>,
      diff |-> Thing(0, FieldDefault)],
     [input |-> <<"i", "n", "n">>, description |-> <<"i", "n", "n">>, unknown_words |-> <<>>,
      diff |-> Thing(0, FieldDefault)]}
        \cup {[input |-> <<"n", "p", "c", " ", "n", "a", "m", "e", "d", " ">> \o n, description |-> <<"c", "h", "a", "r", "a", "c", "t", "e", "r">>,
               unknown_words |-> <<>>, diff |-> Thing(0, FieldNew(n))] : n \in {<<"F", "o", "o">>, <<"f", "o", "o">>}}

\* the names the generator comes up with in the rounds of one run: a first
\* name for the first k rounds, a second name after them
GeneratedNames ==
    {[i \in 1..10 |-> IF i <= k THEN first ELSE second] :
        k \in 0..10, first \in PushNames, second \in PushNames}

WorldCreate(command, names, env) ==
    /\ budget.ops > 0
    /\ \E ran \in {create(command, names, 1, AppMeta, env)} :
           /\ cache' = ran.app.cache
           /\ recent' = ran.app.recent
           /\ ring' = ran.app.ring
           /\ store' = ran.app.store
           /\ calls' = ran.app.calls
           /\ command_aliases' = ran.app.aliases
           /\ pushes' = ran.app.pushes
           /\ last' = [op |-> "create", command |-> command, names |-> names,
                       result |-> ran.result, attempts |-> ran.attempts]
    /\ budget' = [budget EXCEPT !.ops = @ - 1]
    /\ UNCHANGED <<time, data_store_enabled, storeKV, fields>>

InitCreate ==
    /\ cache = EmptyMap
    /\ recent = <<>>
    /\ ring = RingNew
    /\ time = InitialTime
    /\ data_store_enabled \in BOOLEAN
    /\ store = EmptyMap
    /\ storeKV = None
    /\ calls = <<>>
    /\ command_aliases = {}
    /\ fields = EmptyMap
    /\ last = [op |-> "new"]
    /\ pushes = 0
    /\ budget = [push |-> 0, ops |-> MaxCreates, fill |-> 0]

NextCreate ==
    \E command \in CreateCommands, names \in GeneratedNames,
       env \in {[DefaultEnv EXCEPT !.store_ok = ok] : ok \in BOOLEAN} :
        WorldCreate(command, names, env)

SpecCreate == InitCreate /\ [][NextCreate]_vars

\* a name is that of an entity of the cache or of recent, case ignored
in_use(name) ==
    \/ cache_matches(cache, to_lowercase(name)) # {}
    \/ find_recent(recent, to_lowercase(name)) # 0

\* C27: a Create run with a generated name, every one of whose generated
\* names is in use, makes exactly ten attempts, returns the
\* could-not-create-a-unique-name error and adds no entity to the cache, to
\* recent or to the data store.
C27_TenAttemptsThenGivesUp ==
    [][(/\ last'.op = "create"
        /\ is_unlocked(last'.command.diff.name)
        /\ \A i \in 1..10 : in_use(last'.names[i]))
          => /\ last'.attempts = 10
             /\ last'.result = [ok |-> FALSE,
                                text |-> <<"Couldn't create a unique ">>
                                             \o last'.command.description \o <<" name.">>]
             /\ cache' = cache
             /\ recent' = recent
             /\ store' = store
             /\ pushes' = pushes]_vars

\* a second character could not be created: the generator came up with the
\* name of the first, Foo, ten times
C27_Witness ==
    /\ last.op = "create"
    /\ last.command.input = <<"n", "p", "c">>
    /\ last.names = [i \in 1..10 |-> <<"F", "o", "o">>]
    /\ last.attempts = 10
    /\ ~last.result.ok
    /\ Len(recent) = 1
    /\ Display(recent[1].name) = <<"F", "o", "o">>
    /\ pushes = 1

\* C28: a Create run with a name the user gave that is in use returns the
\* name-already-in-use error at the first attempt, without generating again,
\* and adds no entity to the cache, to recent or to the data store.
C28_GivenNameInUseFailsAtOnce ==
    [][(/\ last'.op = "create"
        /\ is_locked(last'.command.diff.name)
        /\ in_use(unwrap(value(last'.command.diff.name))))
          => /\ last'.attempts = 1
             /\ ~last'.result.ok
             /\ \E other_thing \in load_thing_by_name(
                                       cache, recent, ring,
                                       unwrap(value(last'.command.diff.name))) :
                    last'.result.text = <<"That name is already in use by ">>
                                            \o Display(other_thing.name) \o <<".">>
             /\ cache' = cache
             /\ recent' = recent
             /\ store' = store
             /\ calls' = <<>>
             /\ pushes' = pushes]_vars

\* "npc named foo" has been refused while the character Foo was in the journal
C28_Witness ==
    /\ last.op = "create"
    /\ last.command.input = <<"n", "p", "c", " ", "n", "a", "m", "e", "d", " ", "f", "o", "o">>
    /\ last.attempts = 1
    /\ last.result = [ok |-> FALSE, text |-> <<"That name is already in use by ">>
                                                 \o <<"F", "o", "o">> \o <<".">>]
    /\ DOMAIN cache = {1}
    /\ Display(cache[1].name) = <<"F", "o", "o">>
    /\ recent = <<>>
\* C31: WorldCommand::parse_input has an exact match only for an input that
\* begins with "create " and whose rest parses with no unknown words: the
\* exact match is the Create of that rest, its unknown_words are empty, and
\* an Edit reading of "X is Y" is among the fuzzy matches only.
C31_ExactMatchIsACompleteCreate ==
    [][last'.op = "parse_input" =>
        /\ is_some(last'.parsed.exact)
              => /\ unwrap(last'.parsed.exact).variant = "Create"
                 /\ unwrap(last'.parsed.exact).parsed.unknown_words = <<>>
                 /\ starts_with(last'.input, <<"c", "r", "e", "a", "t", "e", " ">>)
                 /\ \E rest \in {SubSeq(last'.input, 8, Len(last'.input))} :
                       /\ Understood(rest)
                       /\ unwrap(last'.parsed.exact) = Create(unwrap(parse_thing(rest)))
        /\ \A k \in 1..Len(last'.parsed.fuzzy) :
              last'.parsed.fuzzy[k].variant \in {"Create", "Edit"}
        /\ (\E k \in 2..Len(quoted_words(last'.input)) :
               quoted_words(last'.input)[k].str = <<"i", "s">>)
              => \/ last'.parsed.exact = None
                 \/ unwrap(last'.parsed.exact).variant # "Edit"]_vars

\* "create elf" has been parsed to an exact match without unknown words,
\* and no fuzzy match
C31_Witness ==
    /\ last.op = "parse_input"
    /\ last.input = <<"c", "r", "e", "a", "t", "e", " ", "e", "l", "f">>
    /\ is_some(last.parsed.exact)
    /\ unwrap(last.parsed.exact).parsed.unknown_words = <<>>
    /\ last.parsed.fuzzy = <<>>

\* "Spot is elf" has been parsed while Spot was in the journal: the Edit of
\* Spot is a fuzzy match and there is no exact match
C31_WitnessEdit ==
    /\ last.op = "parse_input"
    /\ last.input = <<"S", "p", "o", "t", " ", "i", "s", " ", "e", "l", "f">>
    /\ DOMAIN cache = {1}
    /\ last.parsed.exact = None
    /\ \E k \in 1..Len(last.parsed.fuzzy) :
          /\ last.parsed.fuzzy[k].variant = "Edit"
          /\ last.parsed.fuzzy[k].name = <<"S", "p", "o", "t">>
\* the Edit candidates among fuzzy matches
Edits(fuzzy) == SelectSeq(fuzzy, LAMBDA m : m.variant = "Edit")

\* start..end is the range of a word of the input that stands after the
\* first "is" and that no description knows
unrecognised(input, start, end) ==
    \E k \in 1..Len(quoted_words(input)) :
        /\ quoted_words(input)[k].start = start
        /\ quoted_words(input)[k].end = end
        /\ quoted_words(input)[k].str \notin Vocabulary("Npc") \cup Vocabulary("Place")
        /\ \E j \in 2..(k - 1) : quoted_words(input)[j].str = <<"i", "s">>

\* C32: every unknown_words range of the Edit candidate of
\* "<name> is <description>", read as offsets into the whole input, covers
\* exactly an unrecognised word of the description, whatever the white
\* space between "is" and the description.
C32_EditRangesPointIntoTheInput ==
    [][last'.op = "parse_input" =>
        \A m \in Range(Edits(last'.parsed.fuzzy)) :
            \A k \in 1..Len(m.parsed.unknown_words) :
                unrecognised(last'.input, m.parsed.unknown_words[k][1],
                             m.parsed.unknown_words[k][2])]_vars

\* "Spot is  potato elf", with two spaces after "is", has been parsed: the
\* Edit candidate reports 8..14, " potat", where potato stands at 9..15
C32_RangeOffByTheExtraSpace ==
    /\ last.op = "parse_input"
    /\ last.input = <<"S", "p", "o", "t", " ", "i", "s", " ", " ", "p", "o", "t", "a", "t", "o", " ", "e", "l", "f">>
    /\ Len(Edits(last.parsed.fuzzy)) = 1
    /\ Edits(last.parsed.fuzzy)[1].parsed.unknown_words = <<<<8, 14>>>>
    /\ SubSeq(last.input, 8 + 1, 14) = <<" ", "p", "o", "t", "a", "t">>
    /\ ~unrecognised(last.input, 8, 14)
    /\ unrecognised(last.input, 9, 15)

\* with one space after "is" the ranges are right: "Spot is potato elf"
\* gives 8..14, potato
C32_WitnessOneSpace ==
    /\ last.op = "parse_input"
    /\ last.input = <<"S", "p", "o", "t", " ", "i", "s", " ", "p", "o", "t", "a", "t", "o", " ", "e", "l", "f">>
    /\ Edits(last.parsed.fuzzy)[1].parsed.unknown_words = <<<<8, 14>>>>
    /\ SubSeq(last.input, 8 + 1, 14) = <<"p", "o", "t", "a", "t", "o">>
(***************************************************************************)
(* Repository::recent against the buffer it reads.                         *)
(***************************************************************************)
\* C33: after any sequence of push_recent, save_thing_by_name and
\* delete_thing_by_name calls, recent() returns every entity held in the
\* buffer of recent, oldest first, also when the ring of the buffer has
\* wrapped around.
C33_RecentReturnsTheWholeBuffer ==
    repo_recent(recent, ring) = recent

\* after a push that went past the end of the ring, recent() returns the
\* entities of the first slice only: the entity pushed last is in the
\* buffer and not in what recent() returns
C33_RecentStopsAtTheEndOfTheRing ==
    /\ last.op = "push_recent"
    /\ recent[Len(recent)] = last.thing
    /\ Len(repo_recent(recent, ring)) < Len(recent)
    /\ \A i \in 1..Len(repo_recent(recent, ring)) : repo_recent(recent, ring)[i] # last.thing
    /\ repo_recent(recent, ring) = SubSeq(recent, 1, ring.cap - ring.head)
(***************************************************************************)
(* The keys of the cache.                                                  *)
(***************************************************************************)
\* C34: after any sequence of init, push_recent, save_thing_by_name and
\* delete_thing_by_name calls, every entry of the cache is keyed by the
\* uuid of its entity: for each key k of an entity t, t has a uuid, and it
\* is k.
C34_CacheKeyedByUuid ==
    \A k \in DOMAIN cache : cache[k].uuid = Some(k)

\* init has loaded one entity, and another has been saved since: the cache
\* holds both
C34_Witness ==
    /\ last.op = "save_thing_by_name"
    /\ last.result.ok
    /\ Cardinality(DOMAIN cache) = 2
    /\ \E k \in DOMAIN cache : cache[k].tag = -1
    /\ \E k \in DOMAIN cache : cache[k].tag > 0
    /\ 2 \in DOMAIN store /\ store[2].uuid = None /\ 2 \notin DOMAIN cache
(***************************************************************************)
(* The aliases a Create run leaves in the registry.                        *)
(***************************************************************************)
\* the aliases of the registry with a term
termed(aliases, term) == {a \in aliases : a.kind = "Literal" /\ a.term = term}

\* C35 as stated: a Create run that returns Err leaves the registry of
\* aliases exactly as it was before the run.
C35_ErrLeavesTheRegistry ==
    [][(last'.op = "create" /\ ~last'.result.ok)
          => command_aliases' = command_aliases]_vars

\* C35, amended: a Create run that returns Err registers no "save" alias;
\* with a name the user gave it leaves the registry as it was; with a
\* generated name it has registered the "more" alias of its description,
\* unless the registry held an alias of that term, which stays.
C35_ErrRegistersMoreOnly ==
    [][(last'.op = "create" /\ ~last'.result.ok)
          => /\ termed(command_aliases', <<"s", "a", "v", "e">>) = termed(command_aliases, <<"s", "a", "v", "e">>)
             /\ is_locked(last'.command.diff.name) => command_aliases' = command_aliases
             /\ is_unlocked(last'.command.diff.name)
                   => command_aliases' =
                          IF termed(command_aliases, <<"m", "o", "r", "e">>) # {} THEN command_aliases
                          ELSE command_aliases \cup {more_alias(last'.command)}]_vars

\* "npc" has given up after ten attempts, the generator coming up with the
\* name of the one character there is, whose name the user gave; the
\* registry, empty before, holds the "more" alias
C35_Witness ==
    /\ last.op = "create"
    /\ last.command.input = <<"n", "p", "c">>
    /\ ~last.result.ok
    /\ last.attempts = 10
    /\ pushes = 1
    /\ Len(recent) = 1
    /\ is_locked(recent[1].name)
    /\ command_aliases = {more_alias(last.command)}
\* a Create run has succeeded with a generated name, the data store being
\* enabled
created_unsaved ==
    /\ last'.op = "create"
    /\ last'.result.ok
    /\ is_unlocked(last'.command.diff.name)
    /\ data_store_enabled

\* the commands of the aliases of the registry with a term
bound(aliases, term) == {a.command : a \in termed(aliases, term)}

C36_Witness ==
    /\ last.op = "create"
    /\ last.result.ok
    /\ data_store_enabled
    /\ last.command.input = <<"n", "p", "c">>
    /\ pushes = 1
    /\ Len(recent) = 1
    /\ bound(command_aliases, <<"s", "a", "v", "e">>) = {Command("Storage", "Save", Display(recent[1].name))}
    /\ bound(command_aliases, <<"m", "o", "r", "e">>) = {Command("World", "CreateMultiple", <<"c", "h", "a", "r", "a", "c", "t", "e", "r">>)}
(***************************************************************************)
(* Tutorial claims: the order of the states, failing commands, the guards. *)
(***************************************************************************)
\* the states in the order of the enum
StateOrder ==
    <<"Introduction", "Inn", "Save", "Npc", "NpcOther", "SaveByName", "Journal",
      "LoadByName", "Spell", "Weapons", "Roll", "Delete", "AdjustTime", "Time",
      "Conclusion">>

position(variant) == CHOOSE i \in 1..Len(StateOrder) : StateOrder[i] = variant

\* the states that have the field inn_name; npc_gender and npc_name
has_inn_name(variant) == position(variant) \in 4..11
has_npc_name(variant) == position(variant) \in 6..13

\* C37: each tutorial run leaves the tutorial in the state it was in or in
\* the state that follows it in the order Introduction, Inn, Save, Npc,
\* NpcOther, SaveByName, Journal, LoadByName, Spell, Weapons, Roll, Delete,
\* AdjustTime, Time, Conclusion, or ends it from Conclusion; no state is
\* skipped or visited again; and the names of the inn and of the character
\* and the character's gender go unchanged from a state to the next that has
\* them.
C37_StatesInOrderNamesCarried ==
    [][last'.op = "tutorial_run" =>
        /\ last'.next = None => last'.self.variant = "Conclusion"
        /\ is_some(last'.next) =>
              \E self \in {last'.self}, next \in {unwrap(last'.next)} :
                 /\ \/ next = self
                    \/ position(next.variant) = position(self.variant) + 1
                 /\ (has_inn_name(self.variant) /\ has_inn_name(next.variant))
                       => next.inn_name = self.inn_name
                 /\ (has_npc_name(self.variant) /\ has_npc_name(next.variant))
                       => /\ next.npc_name = self.npc_name
                          /\ next.npc_gender = self.npc_gender
        /\ \A i \in 1..Len(last'.trace) : last'.trace[i] = StateOrder[i + 1]]_vars

\* the tutorial has been gone through to its end, the character Ann and
\* the inn Oak in the states from their capture on
C37_Witness ==
    /\ last.op = "tutorial_run"
    /\ last.self.variant = "Conclusion"
    /\ last.next = None
    /\ last.trace = SubSeq(StateOrder, 2, 15)

\* the run of Weapons has moved on to Roll with the names captured before
C37_WitnessCarried ==
    /\ last.op = "tutorial_run"
    /\ last.self.variant = "Weapons"
    /\ is_some(last.next)
    /\ unwrap(last.next).variant = "Roll"
    /\ unwrap(last.next).inn_name = <<"O", "a", "k">>
    /\ unwrap(last.next).npc_name = <<"A", "n", "n">>
    /\ unwrap(last.next).npc_gender = "Feminine"
\* the states whose arm looks at the command's result before it moves on
StatesThatStay == {"Save", "NpcOther", "SaveByName"}

\* the command of an accepted input has returned Err
command_failed(run) ==
    /\ run.op = "tutorial_run"
    /\ is_some(run.command_output)
    /\ ~unwrap(run.command_output).ok

\* C38 as stated: whenever the command of an accepted input returns Err, the
\* tutorial stays in the state it was in and the run returns Err; the
\* tutorial moves on only when the command succeeded.
C38_ErrKeepsTheState ==
    [][command_failed(last') =>
          /\ last'.next = Some(last'.self)
          /\ ~last'.result.ok]_vars

\* C38: whenever the command of an accepted input returns Err, the run
\* returns Err; the tutorial stays in the state it was in, answering with
\* the command's error alone, in the states Save, NpcOther and SaveByName;
\* in every other state it leaves the state all the same, and where a state
\* follows, the answer is the command's error followed by a section break
\* and the lesson of that state.
C38_ErrKeepsTheStateInThreeStates ==
    [][command_failed(last') =>
          /\ ~last'.result.ok
          /\ IF last'.self.variant \in StatesThatStay
             THEN /\ last'.next = Some(last'.self)
                  /\ last'.result = unwrap(last'.command_output)
             ELSE /\ last'.next # Some(last'.self)
                  /\ is_some(last'.next) =>
                        /\ unwrap(last'.next).variant = Successor(last'.self.variant)
                        /\ last'.result.text =
                              Followed(unwrap(last'.command_output).text,
                                       lesson(unwrap(last'.next)))]_vars

\* state NpcOther has been fed "npc" and the command failed: the tutorial
\* is still in NpcOther and has answered with the command's error
C38_Witness ==
    /\ command_failed(last)
    /\ last.self.variant = "NpcOther"
    /\ last.input = <<"n", "p", "c">>
    /\ last.next = Some(last.self)
    /\ last.result = unwrap(last.command_output)

\* state Journal has been fed "save" and the save failed: the tutorial is in
\* LoadByName all the same, and the run has returned Err
C38_WitnessMovedOn ==
    /\ command_failed(last)
    /\ last.self.variant = "Journal"
    /\ last.input = <<"s", "a", "v", "e">>
    /\ is_some(last.next)
    /\ unwrap(last.next).variant = "LoadByName"
    /\ ~last.result.ok
\* the states whose guard takes a verb followed by a captured name
NameShapedStates == {"Npc", "SaveByName", "Journal", "Spell", "AdjustTime"}

\* the run took its input: it has not answered from the default arm
taken(run) == run.executed # <<>>

\* C39: in the states Npc, SaveByName, Journal, Spell and AdjustTime a run
\* takes its input exactly when the input is, character for character and
\* in the same case, one of: "save" or "save " and the inn's name (Npc); "1",
\* the character's name or "load " and that name (SaveByName); "save" or
\* "save " and the character's name (Journal); the character's name or
\* "load " and that name (Spell); "delete " and the character's name
\* (AdjustTime).  Every other input, longer, shorter or of another case,
\* gets the answer that the tutorial is still active, and no command is run.
C39_NameGuardsTakeExactlyVerbAndName ==
    [][(/\ last'.op = "tutorial_run"
        /\ last'.self.variant \in NameShapedStates)
       => /\ taken(last') <=> last'.input \in ExpectedInputs(last'.self)
          /\ ~taken(last') => /\ last'.result = StillActive
                              /\ last'.next = Some(last'.self)]_vars

\* state Npc with the inn Oak has taken "save Oak"
C39_Witness ==
    /\ last.op = "tutorial_run"
    /\ last.self.variant = "Npc"
    /\ last.self.inn_name = <<"O", "a", "k">>
    /\ last.input = <<"s", "a", "v", "e", " ", "O", "a", "k">>
    /\ taken(last)
    /\ unwrap(last.next).variant = "NpcOther"

\* state Npc with the inn Oak has turned down "save oak"
C39_WitnessOtherCase ==
    /\ last.op = "tutorial_run"
    /\ last.self.variant = "Npc"
    /\ last.self.inn_name = <<"O", "a", "k">>
    /\ last.input = <<"s", "a", "v", "e", " ", "o", "a", "k">>
    /\ ~taken(last)
    /\ last.next = Some(last.self)

\* state Journal with the character Ann has turned down "save  Ann", which
\* starts with "save " and ends with the name
C39_WitnessLonger ==
    /\ last.op = "tutorial_run"
    /\ last.self.variant = "Journal"
    /\ last.self.npc_name = <<"A", "n", "n">>
    /\ last.input = <<"s", "a", "v", "e", " ", " ", "A", "n", "n">>
    /\ ~taken(last)
    /\ last.next = Some(last.self)

\* state AdjustTime with the character Ann has turned down "Ann"
C39_WitnessShorter ==
    /\ last.op = "tutorial_run"
    /\ last.self.variant = "AdjustTime"
    /\ last.self.npc_name = <<"A", "n", "n">>
    /\ last.input = <<"A", "n", "n">>
    /\ ~taken(last)
    /\ last.next = Some(last.self)

====
